---- MODULE Spec2Model ----
(***************************************************************************)
(* wgpu-mipmap: the three mipmap generation backends (Compute, Render,     *)
(* Copy), the Recommended dispatcher that chains them, and the readback    *)
(* pipeline generate_and_copy_to_cpu.                                      *)
(*                                                                         *)
(* A generate call is one action: it validates the descriptor and appends  *)
(* commands to the caller's command encoder.  The outcome of a call is Ok, *)
(* Err(e) or Panic (an arithmetic-overflow panic of a build with overflow  *)
(* checks; a build without them wraps modulo 2^32).                        *)
(***************************************************************************)
EXTENDS Integers, Sequences, FiniteSets, TLC

VARIABLES
    overflow_checks,        \* build profile: TRUE = u32 overflow panics, FALSE = wraps
    format_hints,           \* the format_hints the generators were built from
    compute_layout_cache,   \* ComputeMipmapGenerator.layout_cache (its keys)
    compute_pipeline_cache, \* ComputeMipmapGenerator.pipeline_cache (its keys)
    render_layout_cache,    \* RenderMipmapGenerator.layout_cache (its keys)
    render_pipeline_cache,  \* RenderMipmapGenerator.pipeline_cache (its keys)
    pc,                     \* position of the caller
    generator,              \* which generator the caller used
    texture_descriptor,     \* the descriptor handed to generate
    encoder_before,         \* the encoder's commands when generate was called
    encoder,                \* the caller's command encoder (sequence of commands)
    result,                 \* what generate returned
    calls,                  \* backends invoked by the dispatcher, in order, with results
    data,                   \* readback: the dense input buffer
    texture,                \* readback: contents of the texture's mip levels
    buffers,                \* readback: the per-level GPU buffers and their dimensions
    mip_buffers,            \* readback: the MipBuffers returned so far
    events,                 \* readback: device/queue operations performed, in order
    rounding,               \* the device: how a filter rounds a mean to a byte
    previous,               \* the result of the caller's previous generate call
    threads,                \* concurrent callers: each thread's call and its position
    fn,                     \* pure functions: which function is applied
    args,                   \* pure functions: its arguments
    ret                     \* pure functions: what it returned

vars == <<overflow_checks, format_hints, compute_layout_cache, compute_pipeline_cache,
          render_layout_cache, render_pipeline_cache, pc, generator, texture_descriptor,
          encoder_before, encoder, result, calls, data, texture, buffers, mip_buffers,
          events, rounding, previous, threads, fn, args, ret>>

genVars == <<overflow_checks, format_hints, compute_layout_cache, compute_pipeline_cache,
             render_layout_cache, render_pipeline_cache, rounding>>

readbackVars == <<data, texture, buffers, mip_buffers, events>>

threadVars == <<previous, threads>>

pureVars == <<fn, args, ret>>

-----------------------------------------------------------------------------
(* Bounds of the model *)

\* texture widths and heights range over 0..MaxSize (plus the test sizes)
MaxSize == 2
\* mip_level_count ranges over 0..MaxMip (plus the test sizes' full chain)
MaxMip == 2
\* commands already in the caller's encoder before the call: 0..MaxPrior
MaxPrior == 1
\* a Copy call that would record more than MaxRecorded copies is not explored
MaxRecorded == 12
\* readback: texture widths 1..MaxRbWidth (plus the width whose rows need no padding)
MaxRbWidth == 3
\* readback: texture heights 1..MaxRbHeight
MaxRbHeight == 2
\* readback: mip_level_count 1..MaxRbMip
MaxRbMip == 3
\* readback: the input buffers are numbered 0..MaxSeed
MaxSeed == 1
\* pure functions: small axes and widths 0..MaxAxis (plus the edge values)
MaxAxis == 5
\* pure functions: small levels 0..MaxLevel (plus the levels around the width of u32)
MaxLevel == 3
\* pure functions: heights 0..MaxPureHeight of MipBufferDimensions::new
MaxPureHeight == 2
\* the number of threads sharing one generator
NumThreads == 2
\* construction: the format hint lists have 0..MaxHints entries
MaxHints == 3
\* checkerboards: texture sizes 2^0..2^MaxCbLog (plus the size of the test)
MaxCbLog == 4

(* Program constants *)

\* width of u32
U32Bits == 32
\* mantissa width of f32 (including the implicit bit)
F32Mantissa == 24
\* x_work_group_count / y_work_group_count
WorkGroupCount == 32
\* wgpu::COPY_BYTES_PER_ROW_ALIGNMENT
COPY_BYTES_PER_ROW_ALIGNMENT == 256
\* the checkerboard square size of the tests
CheckboardSize == 16
\* the non-power-of-two size of the tests
NpotSize == 511
\* the power-of-two size of the tests
PotSize == 512
\* the largest bytes-per-texel of format_bytes_per_channel
MaxBytesPerTexel == 16

\* TLC's integers end at 2^31 - 1.  The u32 values of the model's inputs lie
\* below that; the two u32 values above it that the code can produce (u32::MAX
\* from `0 - 1` wrapping and from a saturating cast of +inf) are represented
\* by U32Max, the largest integer TLC holds.
U32Max == (2 ^ (U32Bits - 2) - 1) * 2 + 1

-----------------------------------------------------------------------------
(* wgpu types *)

TextureUsageBits == {"COPY_SRC", "COPY_DST", "SAMPLED", "STORAGE", "RENDER_ATTACHMENT"}
TextureDimensions == {"D1", "D2", "D3"}
\* the texture formats the model ranges over: one with a compute kernel and a
\* float sample type (1 byte per texel), one likewise with 16 bytes per texel,
\* one with a float sample type but no compute kernel, one signed-integer format
TextureFormats == {"R8Unorm", "Rgba32Float", "Depth32Float", "Rgba8Sint"}

Extent3d(w, h, d) == [width |-> w, height |-> h, depth |-> d]

Min(a, b) == IF a <= b THEN a ELSE b
Max(a, b) == IF a >= b THEN a ELSE b

\* u32::is_power_of_two
RECURSIVE is_power_of_two(_)
is_power_of_two(n) ==
    /\ n >= 1
    /\ (n = 1 \/ (n % 2 = 0 /\ is_power_of_two(n \div 2)))

RECURSIVE BitLen(_)
BitLen(n) == IF n = 0 THEN 0 ELSE 1 + BitLen(n \div 2)

\* `n as f32` for a u32 n: round to nearest, ties to even, 24-bit mantissa
ToF32(n) ==
    IF BitLen(n) <= F32Mantissa THEN n
    ELSE LET ulp == 2 ^ (BitLen(n) - F32Mantissa)
             q == n \div ulp
             r == n % ulp
             half == ulp \div 2
             up == r > half \/ (r = half /\ q % 2 = 1)
         IN  IF up THEN (q + 1) * ulp ELSE q * ulp

\* ((axis as f32) / (2u32.pow(level) as f32)).floor() as u32, then .max(1).
\* Without overflow checks 2u32.pow(level) wraps to 0 for level >= 32, and
\* x / 0.0 is +inf, 0.0 / 0.0 is NaN; `as u32` saturates and maps NaN to 0.
\* For level = 31 the quotient of an axis below 2^31 is below 1.
MipAxis(axis, level) ==
    LET f == ToF32(axis)
        q == IF level >= U32Bits THEN (IF f = 0 THEN 0 ELSE U32Max)
             ELSE IF level = U32Bits - 1 THEN 0
             ELSE f \div (2 ^ level)
    IN  Max(q, 1)

get_mip_extent(extent, level) ==
    Extent3d(MipAxis(extent.width, level),
             MipAxis(extent.height, level),
             MipAxis(extent.depth, level))

-----------------------------------------------------------------------------
(* core.rs: Error, and the result of a call *)

NoError == [tag |-> "None", usage |-> {}, dimension |-> "None", format |-> "None"]
UnsupportedUsage(u) == [NoError EXCEPT !.tag = "UnsupportedUsage", !.usage = u]
UnsupportedDimension(d) == [NoError EXCEPT !.tag = "UnsupportedDimension", !.dimension = d]
UnknownFormat(f) == [NoError EXCEPT !.tag = "UnknownFormat", !.format = f]
NpotTexture == [NoError EXCEPT !.tag = "NpotTexture"]

Ok == [status |-> "Ok", err |-> NoError]
Err(e) == [status |-> "Err", err |-> e]
Panic == [status |-> "Panic", err |-> NoError]

\* what a generate call hands back: its result and the encoder afterwards
Outcome(res, enc) == [res |-> res, encoder |-> enc]

-----------------------------------------------------------------------------
(* Commands recorded into a command encoder *)

NoExtent == Extent3d(0, 0, 0)

Command(op, src_tex, src_level, dst_tex, dst_level, extent, groups) ==
    [op |-> op, src_texture |-> src_tex, src_level |-> src_level,
     dst_texture |-> dst_tex, dst_level |-> dst_level,
     extent |-> extent, groups |-> groups, bytes_per_row |-> 0]

\* a command the caller recorded before calling generate
PriorCommand == Command("prior", "none", 0, "none", 0, NoExtent, <<0, 0, 0>>)

-----------------------------------------------------------------------------
(* Construction of the generators *)

\* compute.rs shader_for_format: TRUE iff it returns Some(module)
shader_for_format(format) == format \in {"R8Unorm", "Rgba32Float"}

\* render.rs to_sample_type
to_sample_type(format) ==
    CASE format = "Rgba8Sint" -> "Sint"
      [] format \in {"R8Unorm", "Rgba32Float", "Depth32Float"} -> "Float"

SeqRange(s) == {s[i] : i \in 1..Len(s)}

\* ComputeMipmapGenerator::new_with_format_hints: the keys of both caches
ComputeNew(hints) == {f \in SeqRange(hints) : shader_for_format(f)}

\* RenderMipmapGenerator::new_with_format_hints: the keys of layout_cache
RenderNewLayouts == {"Float"}

\* mutant: a render pipeline is built for every hint, whatever its sample type
RenderNewPipelinesEveryHint(hints) == SeqRange(hints)

\* RenderMipmapGenerator::new_with_format_hints: the keys of pipeline_cache
RenderNewPipelines(hints) ==
    {f \in SeqRange(hints) : to_sample_type(f) \in RenderNewLayouts}

ComputeRequiredUsage == {"STORAGE"}
RenderRequiredUsage == {"RENDER_ATTACHMENT", "SAMPLED"}
CopyRequiredUsage == {"SAMPLED", "COPY_DST"}

-----------------------------------------------------------------------------
(* ComputeMipmapGenerator::generate *)

\* the compute pass of iteration `mip` reading and writing one level too low
ComputePassOneLevelDown(desc, mip) ==
    LET mip_ext == get_mip_extent(desc.size, mip)
    IN  Command("compute_pass", "texture", mip - 1, "texture", mip - 1, mip_ext,
                <<Max(mip_ext.width \div WorkGroupCount, 1),
                  Max(mip_ext.height \div WorkGroupCount, 1), 1>>)

\* mutant: the group counts are not raised to at least one
ComputePassNoMinimum(desc, mip) ==
    LET mip_ext == get_mip_extent(desc.size, mip)
    IN  Command("compute_pass", "texture", mip - 1, "texture", mip, mip_ext,
                <<mip_ext.width \div WorkGroupCount,
                  mip_ext.height \div WorkGroupCount, 1>>)

\* the compute pass of the loop iteration `mip`
ComputePass(desc, mip) ==
    LET mip_ext == get_mip_extent(desc.size, mip)
    IN  Command("compute_pass", "texture", mip - 1, "texture", mip, mip_ext,
                <<Max(mip_ext.width \div WorkGroupCount, 1),
                  Max(mip_ext.height \div WorkGroupCount, 1), 1>>)

\* mutant: the loop stops one level short of the last
ComputePassesStopEarly(desc) ==
    IF desc.mip_level_count <= 2 THEN <<>>
    ELSE [i \in 1..(desc.mip_level_count - 2) |-> ComputePass(desc, i)]

\* compute.rs bind_group_layout_for_format: the entries by binding number
\* (entry k + 1 is binding k), each a storage texture of the format
bind_group_layout_for_format(format) ==
    <<[binding |-> 0, access |-> "ReadOnly", format |-> format],
      [binding |-> 1, access |-> "ReadOnly", format |-> format]>>

\* the bind group of the loop iteration `mip`: the view of level mip-1 at
\* binding 0, the view of level mip at binding 1
ComputeBindGroup(mip) ==
    <<[binding |-> 0, texture |-> "texture", base_mip_level |-> mip - 1],
      [binding |-> 1, texture |-> "texture", base_mip_level |-> mip]>>

\* the views Compute creates: one per level 0..mip_count-1 of the texture
ComputeViews(desc) ==
    [k \in 1..desc.mip_level_count |->
        [texture |-> "texture", base_mip_level |-> k - 1]]

ComputePasses(desc) ==
    IF desc.mip_level_count <= 1 THEN <<>>
    ELSE [i \in 1..(desc.mip_level_count - 1) |-> ComputePass(desc, i)]

\* mutant: the passes are recorded before the format is looked up
ComputeGenerateRecordsEarly(enc, desc) ==
    IF ~is_power_of_two(desc.size.width) \/ ~is_power_of_two(desc.size.height)
    THEN Outcome(Err(NpotTexture), enc)
    ELSE IF desc.dimension # "D2"
    THEN Outcome(Err(UnsupportedDimension(desc.dimension)), enc)
    ELSE IF ~(ComputeRequiredUsage \subseteq desc.usage)
    THEN Outcome(Err(UnsupportedUsage(desc.usage)), enc)
    ELSE IF desc.format \notin compute_layout_cache
    THEN Outcome(Err(UnknownFormat(desc.format)), enc \o ComputePasses(desc))
    ELSE Outcome(Ok, enc \o ComputePasses(desc))

\* mutant: the usage is checked before the size and the dimension
ComputeGenerateUsageFirst(enc, desc) ==
    IF ~(ComputeRequiredUsage \subseteq desc.usage)
    THEN Outcome(Err(UnsupportedUsage(desc.usage)), enc)
    ELSE IF ~is_power_of_two(desc.size.width) \/ ~is_power_of_two(desc.size.height)
    THEN Outcome(Err(NpotTexture), enc)
    ELSE IF desc.dimension # "D2"
    THEN Outcome(Err(UnsupportedDimension(desc.dimension)), enc)
    ELSE IF desc.format \notin compute_layout_cache
    THEN Outcome(Err(UnknownFormat(desc.format)), enc)
    ELSE Outcome(Ok, enc \o ComputePasses(desc))

\* mutant: a format without a cached pipeline is reported as unsupported usage
ComputeGenerateWrongFormatError(enc, desc) ==
    IF ~is_power_of_two(desc.size.width) \/ ~is_power_of_two(desc.size.height)
    THEN Outcome(Err(NpotTexture), enc)
    ELSE IF desc.dimension # "D2"
    THEN Outcome(Err(UnsupportedDimension(desc.dimension)), enc)
    ELSE IF ~(ComputeRequiredUsage \subseteq desc.usage)
    THEN Outcome(Err(UnsupportedUsage(desc.usage)), enc)
    ELSE IF desc.format \notin compute_layout_cache
    THEN Outcome(Err(UnsupportedUsage(desc.usage)), enc)
    ELSE Outcome(Ok, enc \o ComputePasses(desc))

ComputeGenerate(enc, desc) ==
    IF ~is_power_of_two(desc.size.width) \/ ~is_power_of_two(desc.size.height)
    THEN Outcome(Err(NpotTexture), enc)
    ELSE IF desc.dimension # "D2"
    THEN Outcome(Err(UnsupportedDimension(desc.dimension)), enc)
    ELSE IF ~(ComputeRequiredUsage \subseteq desc.usage)
    THEN Outcome(Err(UnsupportedUsage(desc.usage)), enc)
    ELSE IF desc.format \notin compute_layout_cache
    THEN Outcome(Err(UnknownFormat(desc.format)), enc)
    ELSE IF desc.format \notin compute_pipeline_cache
    THEN Outcome(Err(UnknownFormat(desc.format)), enc)
    ELSE Outcome(Ok, enc \o ComputePasses(desc))

-----------------------------------------------------------------------------
(* RenderMipmapGenerator::generate_src_dst and generate *)

\* mutant: the destination views ignore dst_mip_offset
RenderViewNoOffset(src_texture, dst_texture, mip_level, dst_mip_offset) ==
    IF mip_level = 0
    THEN [texture |-> src_texture, base_mip_level |-> 0]
    ELSE [texture |-> dst_texture, base_mip_level |-> mip_level]

\* the view of index mip_level: level 0 of src, later levels of dst
RenderView(src_texture, dst_texture, mip_level, dst_mip_offset) ==
    IF mip_level = 0
    THEN [texture |-> src_texture, base_mip_level |-> 0]
    ELSE [texture |-> dst_texture, base_mip_level |-> mip_level - dst_mip_offset]

\* mutant: every pass samples level 0 of the source texture
RenderPassFromBase(src_texture, dst_texture, mip, dst_mip_offset) ==
    LET src_view == RenderView(src_texture, dst_texture, 0, dst_mip_offset)
        dst_view == RenderView(src_texture, dst_texture, mip, dst_mip_offset)
    IN  Command("render_pass", src_view.texture, src_view.base_mip_level,
                dst_view.texture, dst_view.base_mip_level, NoExtent, <<0, 0, 0>>)

\* the render pass of the loop iteration `mip`
RenderPass(src_texture, dst_texture, mip, dst_mip_offset) ==
    LET src_view == RenderView(src_texture, dst_texture, mip - 1, dst_mip_offset)
        dst_view == RenderView(src_texture, dst_texture, mip, dst_mip_offset)
    IN  Command("render_pass", src_view.texture, src_view.base_mip_level,
                dst_view.texture, dst_view.base_mip_level, NoExtent, <<0, 0, 0>>)

RenderPasses(src_texture, dst_texture, src_mip_count, dst_mip_offset) ==
    IF src_mip_count <= 1 THEN <<>>
    ELSE [i \in 1..(src_mip_count - 1) |->
            RenderPass(src_texture, dst_texture, i, dst_mip_offset)]

\* the views generate_src_dst creates: one per level 0..src_mip_count-1
RenderViews(src_texture, dst_texture, src_mip_count, dst_mip_offset) ==
    [k \in 1..src_mip_count |->
        RenderView(src_texture, dst_texture, k - 1, dst_mip_offset)]

generate_src_dst(enc, src_texture, dst_texture, src_desc, dst_desc, dst_mip_offset) ==
    LET src_next_mip_ext == get_mip_extent(src_desc.size, 1)
    IN
    IF src_desc.format # dst_desc.format THEN Outcome(Panic, enc)
    ELSE IF src_desc.dimension # dst_desc.dimension THEN Outcome(Panic, enc)
    ELSE IF ~((src_desc.mip_level_count = dst_desc.mip_level_count
               /\ src_desc.size = dst_desc.size)
              \/ src_next_mip_ext = dst_desc.size)
    THEN Outcome(Panic, enc)
    ELSE IF src_desc.dimension # "D2"
    THEN Outcome(Err(UnsupportedDimension(src_desc.dimension)), enc)
    ELSE IF ~("SAMPLED" \in src_desc.usage)
    THEN Outcome(Err(UnsupportedUsage(src_desc.usage)), enc)
    ELSE IF ~(RenderRequiredUsage \subseteq dst_desc.usage)
    THEN Outcome(Err(UnsupportedUsage(dst_desc.usage)), enc)
    ELSE IF src_desc.format \notin render_pipeline_cache
    THEN Outcome(Err(UnknownFormat(src_desc.format)), enc)
    ELSE IF to_sample_type(src_desc.format) \notin render_layout_cache
    THEN Outcome(Err(UnknownFormat(src_desc.format)), enc)
    ELSE Outcome(Ok, enc \o RenderPasses(src_texture, dst_texture,
                                         src_desc.mip_level_count, dst_mip_offset))

\* mutant: Render rejects sizes that are not a power of two, as Compute does
RenderGenerateNpot(enc, desc) ==
    IF ~is_power_of_two(desc.size.width) \/ ~is_power_of_two(desc.size.height)
    THEN Outcome(Err(NpotTexture), enc)
    ELSE generate_src_dst(enc, "texture", "texture", desc, desc, 0)

RenderGenerate(enc, desc) ==
    generate_src_dst(enc, "texture", "texture", desc, desc, 0)

-----------------------------------------------------------------------------
(* CopyMipmapGenerator::generate *)

\* a - b on u32 in a build without overflow checks
U32WrappingSub(a, b) == IF a >= b THEN a - b ELSE U32Max - (b - a - 1)

\* mutant: the temporary texture's extent is halved without the floor of one
CopyTmpDescriptorUnclamped(desc) ==
    [size |-> Extent3d(desc.size.width \div 2, desc.size.height \div 2, 1),
     mip_level_count |-> U32WrappingSub(desc.mip_level_count, 1),
     sample_count |-> desc.sample_count,
     dimension |-> desc.dimension,
     format |-> desc.format,
     usage |-> RenderRequiredUsage \cup {"COPY_SRC"}]

\* tmp_descriptor (its mip_level_count computed without overflow checks)
CopyTmpDescriptor(desc) ==
    [size |-> get_mip_extent(desc.size, 1),
     mip_level_count |-> U32WrappingSub(desc.mip_level_count, 1),
     sample_count |-> desc.sample_count,
     dimension |-> desc.dimension,
     format |-> desc.format,
     usage |-> RenderRequiredUsage \cup {"COPY_SRC"}]

\* mutant: the copy extent is taken one level further down
CopyCommandNextExtent(tmp, i) ==
    Command("copy_texture_to_texture", "tmp_texture", i, "texture", i + 1,
            get_mip_extent(tmp.size, i + 1), <<0, 0, 0>>)

\* the texture-to-texture copy of the loop iteration i
CopyCommand(tmp, i) ==
    Command("copy_texture_to_texture", "tmp_texture", i, "texture", i + 1,
            get_mip_extent(tmp.size, i), <<0, 0, 0>>)

CopyCommands(tmp) ==
    IF tmp.mip_level_count = 0 THEN <<>>
    ELSE [k \in 1..tmp.mip_level_count |-> CopyCommand(tmp, k - 1)]

\* mutant: Copy rejects sizes that are not a power of two, as Compute does
CopyGenerateNpot(enc, desc) ==
    IF overflow_checks /\ desc.mip_level_count < 1
    THEN Outcome(Panic, enc)
    ELSE IF ~is_power_of_two(desc.size.width) \/ ~is_power_of_two(desc.size.height)
    THEN Outcome(Err(NpotTexture), enc)
    ELSE LET tmp == CopyTmpDescriptor(desc)
             r == generate_src_dst(enc, "texture", "tmp_texture", desc, tmp, 1)
         IN  IF r.res.status # "Ok" THEN r
             ELSE Outcome(Ok, r.encoder \o CopyCommands(tmp))

CopyGenerate(enc, desc) ==
    IF overflow_checks /\ desc.mip_level_count < 1
    THEN Outcome(Panic, enc)
    ELSE LET tmp == CopyTmpDescriptor(desc)
             r == generate_src_dst(enc, "texture", "tmp_texture", desc, tmp, 1)
         IN  IF r.res.status # "Ok" THEN r
             ELSE Outcome(Ok, r.encoder \o CopyCommands(tmp))

\* the number of copies CopyGenerate records for desc (0 when it records none)
CopyRecorded(desc) ==
    IF overflow_checks /\ desc.mip_level_count < 1 THEN 0
    ELSE LET tmp == CopyTmpDescriptor(desc)
         IN  IF generate_src_dst(<<>>, "texture", "tmp_texture", desc, tmp, 1).res.status
                    = "Ok"
             THEN tmp.mip_level_count ELSE 0

-----------------------------------------------------------------------------
(* RecommendedMipmapGenerator::generate *)

Call(backend, res) == [backend |-> backend, res |-> res]

\* mutant: the dispatcher tries Render before Compute
RecommendedGenerateRenderFirst(enc, desc) ==
    LET r == RenderGenerate(enc, desc)
    IN  IF r.res.status # "Err"
        THEN [res |-> r.res, encoder |-> r.encoder,
              calls |-> <<Call("Render", r.res)>>]
        ELSE
    LET c == ComputeGenerate(r.encoder, desc)
    IN  IF c.res.status # "Err"
        THEN [res |-> c.res, encoder |-> c.encoder,
              calls |-> <<Call("Render", r.res), Call("Compute", c.res)>>]
        ELSE
    LET y == CopyGenerate(c.encoder, desc)
    IN  IF y.res.status # "Err"
        THEN [res |-> y.res, encoder |-> y.encoder,
              calls |-> <<Call("Render", r.res), Call("Compute", c.res),
                          Call("Copy", y.res)>>]
        ELSE [res |-> Err(UnsupportedUsage(desc.usage)), encoder |-> y.encoder,
              calls |-> <<Call("Render", r.res), Call("Compute", c.res),
                          Call("Copy", y.res)>>]

\* mutant: the dispatcher returns the Copy backend's error when all three fail
RecommendedGenerateLastError(enc, desc) ==
    LET c == ComputeGenerate(enc, desc)
    IN  IF c.res.status # "Err"
        THEN [res |-> c.res, encoder |-> c.encoder,
              calls |-> <<Call("Compute", c.res)>>]
        ELSE
    LET r == RenderGenerate(c.encoder, desc)
    IN  IF r.res.status # "Err"
        THEN [res |-> r.res, encoder |-> r.encoder,
              calls |-> <<Call("Compute", c.res), Call("Render", r.res)>>]
        ELSE
    LET y == CopyGenerate(r.encoder, desc)
    IN  [res |-> y.res, encoder |-> y.encoder,
         calls |-> <<Call("Compute", c.res), Call("Render", r.res),
                     Call("Copy", y.res)>>]

\* the outcome of the dispatcher together with the backends it invoked
RecommendedGenerate(enc, desc) ==
    LET c == ComputeGenerate(enc, desc)
    IN  IF c.res.status # "Err"
        THEN [res |-> c.res, encoder |-> c.encoder,
              calls |-> <<Call("Compute", c.res)>>]
        ELSE
    LET r == RenderGenerate(c.encoder, desc)
    IN  IF r.res.status # "Err"
        THEN [res |-> r.res, encoder |-> r.encoder,
              calls |-> <<Call("Compute", c.res), Call("Render", r.res)>>]
        ELSE
    LET y == CopyGenerate(r.encoder, desc)
    IN  IF y.res.status # "Err"
        THEN [res |-> y.res, encoder |-> y.encoder,
              calls |-> <<Call("Compute", c.res), Call("Render", r.res),
                          Call("Copy", y.res)>>]
        ELSE [res |-> Err(UnsupportedUsage(desc.usage)), encoder |-> y.encoder,
              calls |-> <<Call("Compute", c.res), Call("Render", r.res),
                          Call("Copy", y.res)>>]

\* the number of commands the dispatcher's Copy attempt records for desc
RecommendedRecorded(desc) ==
    IF ComputeGenerate(<<>>, desc).res.status = "Err"
       /\ RenderGenerate(<<>>, desc).res.status = "Err"
    THEN CopyRecorded(desc) ELSE 0

-----------------------------------------------------------------------------
(* The inputs the model ranges over *)

RECURSIVE Log2Floor(_)
Log2Floor(n) == IF n <= 1 THEN 0 ELSE 1 + Log2Floor(n \div 2)

\* the tests' mip_level_count: 1 + (size as f32).log2() as u32
FullMipCount(size) == 1 + Log2Floor(size)

TestSizes == {NpotSize, PotSize}

\* <<width, height, mip_level_count>>
Shapes ==
    {<<w, h, m>> : w \in 0..MaxSize, h \in 0..MaxSize, m \in 0..MaxMip}
    \cup {<<s, s, m>> : s \in TestSizes, m \in 0..MaxMip}
    \cup {<<s, s, FullMipCount(s)>> : s \in TestSizes}

TextureDescriptor(shape, format, dimension, usage) ==
    [size |-> Extent3d(shape[1], shape[2], 1),
     mip_level_count |-> shape[3],
     sample_count |-> 1,
     dimension |-> dimension,
     format |-> format,
     usage |-> usage]

TextureDescriptors ==
    {TextureDescriptor(shape, format, dimension, usage) :
        shape \in Shapes, format \in TextureFormats,
        dimension \in TextureDimensions, usage \in SUBSET TextureUsageBits}

\* the format hint lists a generator is built from
HintLists == {<<>>, <<"R8Unorm", "Rgba32Float", "Depth32Float", "Rgba8Sint">>}

PriorEncoders == {[i \in 1..n |-> PriorCommand] : n \in 0..MaxPrior}

NoDescriptor == TextureDescriptor(<<0, 0, 0>>, "None", "None", {})
NoResult == [status |-> "None", err |-> NoError]

-----------------------------------------------------------------------------
(* The caller: build the generators, then call generate on one of them *)

InitGenerators ==
    /\ overflow_checks \in BOOLEAN
    /\ format_hints \in HintLists
    /\ compute_layout_cache = ComputeNew(format_hints)
    /\ compute_pipeline_cache = ComputeNew(format_hints)
    /\ render_layout_cache = RenderNewLayouts
    /\ render_pipeline_cache = RenderNewPipelines(format_hints)

InitReadbackIdle ==
    /\ data = <<>>
    /\ texture = <<>>
    /\ buffers = <<>>
    /\ mip_buffers = <<>>
    /\ events = <<>>

\* no previous call, no concurrent callers
InitThreadsIdle ==
    /\ previous = NoResult
    /\ threads = <<>>

\* no pure function applied
InitPureIdle ==
    /\ fn = "None"
    /\ args = <<>>
    /\ ret = <<>>

Init ==
    /\ InitGenerators
    /\ rounding = "down"
    /\ InitReadbackIdle
    /\ InitThreadsIdle
    /\ InitPureIdle
    /\ pc = "ready"
    /\ generator = "None"
    /\ texture_descriptor = NoDescriptor
    /\ encoder \in PriorEncoders
    /\ encoder_before = encoder
    /\ result = NoResult
    /\ calls = <<>>

Returned(gen, desc, out, log) ==
    /\ pc' = "returned"
    /\ generator' = gen
    /\ texture_descriptor' = desc
    /\ encoder_before' = encoder
    /\ encoder' = out.encoder
    /\ result' = out.res
    /\ calls' = log
    /\ UNCHANGED genVars
    /\ UNCHANGED readbackVars
    /\ previous' = result
    /\ UNCHANGED <<threads, pureVars>>

CallCompute ==
    /\ pc = "ready"
    /\ \E desc \in TextureDescriptors :
          Returned("Compute", desc, ComputeGenerate(encoder, desc), <<>>)

CallRender ==
    /\ pc = "ready"
    /\ \E desc \in TextureDescriptors :
          Returned("Render", desc, RenderGenerate(encoder, desc), <<>>)

CallCopy ==
    /\ pc = "ready"
    /\ \E desc \in TextureDescriptors :
          /\ CopyRecorded(desc) <= MaxRecorded
          /\ Returned("Copy", desc, CopyGenerate(encoder, desc), <<>>)

CallRecommended ==
    /\ pc = "ready"
    /\ \E desc \in TextureDescriptors :
          /\ RecommendedRecorded(desc) <= MaxRecorded
          /\ LET out == RecommendedGenerate(encoder, desc)
             IN  Returned("Recommended", desc, out, out.calls)

Next ==
    \/ CallCompute
    \/ CallRender
    \/ CallCopy
    \/ CallRecommended

Spec == Init /\ [][Next]_vars

-----------------------------------------------------------------------------
(* util.rs: MipBufferDimensions and generate_and_copy_to_cpu *)

\* format_bytes_per_channel: 0 stands for unimplemented!()
format_bytes_per_channel(format) ==
    CASE format = "R8Unorm" -> 1
      [] format = "Rgba8Sint" -> 4
      [] format = "Rgba32Float" -> MaxBytesPerTexel
      [] OTHER -> 0

\* MipBufferDimensions::new padding a full alignment onto rows that need none
MipBufferDimensionsAlwaysPads(width, height, bytes_per_channel) ==
    LET w == Max(width, 1)
        h == Max(height, 1)
        unpadded_bytes_per_row == w * bytes_per_channel
        align == COPY_BYTES_PER_ROW_ALIGNMENT
    IN  [width |-> w, height |-> h, bytes_per_channel |-> bytes_per_channel,
         unpadded_bytes_per_row |-> unpadded_bytes_per_row,
         padded_bytes_per_row |->
             unpadded_bytes_per_row + (align - (unpadded_bytes_per_row % align))]

\* MipBufferDimensions::new
MipBufferDimensions(width, height, bytes_per_channel) ==
    LET w == Max(width, 1)
        h == Max(height, 1)
        unpadded_bytes_per_row == w * bytes_per_channel
        align == COPY_BYTES_PER_ROW_ALIGNMENT
        padded_bytes_per_row_padding == (align - (unpadded_bytes_per_row % align)) % align
    IN  [width |-> w, height |-> h, bytes_per_channel |-> bytes_per_channel,
         unpadded_bytes_per_row |-> unpadded_bytes_per_row,
         padded_bytes_per_row |-> unpadded_bytes_per_row + padded_bytes_per_row_padding]

\* buffer_dimensions of the texture
BaseDimensions(desc) ==
    MipBufferDimensions(desc.size.width, desc.size.height,
                        format_bytes_per_channel(desc.format))

\* mip_dimensions of level i
MipDimensions(desc, i) ==
    LET base == BaseDimensions(desc)
    IN  MipBufferDimensions(base.width \div (2 ^ i), base.height \div (2 ^ i),
                            base.bytes_per_channel)

\* mip_texture_extent of level i
MipTextureExtent(desc, i) ==
    LET base == BaseDimensions(desc)
    IN  Extent3d(base.width \div (2 ^ i), base.height \div (2 ^ i), 1)

\* the copy_texture_to_buffer of level i; the buffer of level i is buffer i
BufferCopyCommand(desc, i) ==
    [Command("copy_texture_to_buffer", "texture", i, "buffer", i,
             MipTextureExtent(desc, i), <<0, 0, 0>>)
        EXCEPT !.bytes_per_row = MipDimensions(desc, i).padded_bytes_per_row]

BufferCopyCommands(desc) ==
    [k \in 1..desc.mip_level_count |-> BufferCopyCommand(desc, k - 1)]

\* the dispatcher's outcome without the record of the backends it invoked
WithoutCalls(out) == Outcome(out.res, out.encoder)

\* what generator.generate(...) does for the generator named gen
Generate(gen, enc, desc) ==
    CASE gen = "Compute" -> ComputeGenerate(enc, desc)
      [] gen = "Render" -> RenderGenerate(enc, desc)
      [] gen = "Copy" -> CopyGenerate(enc, desc)
      [] gen = "Recommended" -> WithoutCalls(RecommendedGenerate(enc, desc))

\* a function on 1..n as the sequence of its values (a Vec holds values, not
\* an expression to be evaluated later)
Vec(f) == f \o <<>>

\* exact_buffer with the rows taken at the unpadded stride
ExactBufferUnpaddedStride(padded_buffer, dims) ==
    Vec([k \in 1..(dims.unpadded_bytes_per_row * dims.height) |-> padded_buffer[k]])

\* exact_buffer as the whole mapped range, padding included
ExactBufferPadded(padded_buffer, dims) == padded_buffer

\* the padded rows read back: exact_buffer of one level
ExactBuffer(padded_buffer, dims) ==
    Vec([k \in 1..(dims.unpadded_bytes_per_row * dims.height) |->
        LET y == (k - 1) \div dims.unpadded_bytes_per_row
            x == (k - 1) % dims.unpadded_bytes_per_row
            row_beg == y * dims.padded_bytes_per_row
        IN  padded_buffer[row_beg + x + 1]])

-----------------------------------------------------------------------------
(* The device and queue, as far as the readback needs them *)

Matrix(h, n, v) == Vec([y \in 1..h |-> Vec([x \in 1..n |-> v])])

\* the size of mip level `level` of a texture axis
LevelAxis(axis, level) == Max(axis \div (2 ^ level), 1)

\* device.create_texture: every level zero-filled, one row of bytes per texel row
CreateTexture(desc) ==
    LET bpt == format_bytes_per_channel(desc.format)
    IN  [k \in 1..desc.mip_level_count |->
            Matrix(LevelAxis(desc.size.height, k - 1),
                   LevelAxis(desc.size.width, k - 1) * bpt, 0)]

\* device.create_buffer of `size` bytes
CreateBuffer(size) == Vec([k \in 1..size |-> 0])

\* queue.write_texture into level 0: `height` rows of `width` texels, row y
\* taken from input at y * bytes_per_row
WriteTexture(levels, input, bytes_per_row, width, height, bpt) ==
    LET level0 == levels[1]
    IN  [levels EXCEPT ![1] =
            Vec([y \in 1..Len(level0) |-> Vec([x \in 1..Len(level0[y]) |->
                IF y <= height /\ x <= width * bpt
                   /\ (y - 1) * bytes_per_row + x <= Len(input)
                THEN input[(y - 1) * bytes_per_row + x]
                ELSE level0[y][x]])])]

\* how a device may round the mean of the filtered bytes
Roundings == {"down", "nearest"}

\* the box filter of a pass: each byte of the destination is the mean of the
\* up to 2x2 source texels it covers, rounded as the device rounds
BoxFilter(src, dst, bpt) ==
    LET Has(r, k) == r <= Len(src) /\ k <= Len(src[r])
        Val(r, k) == IF Has(r, k) THEN src[r][k] ELSE 0
        One(r, k) == IF Has(r, k) THEN 1 ELSE 0
    IN  Vec([y \in 1..Len(dst) |-> Vec([x \in 1..Len(dst[y]) |->
            LET c == (x - 1) % bpt
                tx == (x - 1) \div bpt
                r0 == 2 * y - 1
                r1 == 2 * y
                k0 == 2 * tx * bpt + c + 1
                k1 == (2 * tx + 1) * bpt + c + 1
                n == One(r0, k0) + One(r0, k1) + One(r1, k0) + One(r1, k1)
                total == Val(r0, k0) + Val(r0, k1) + Val(r1, k0) + Val(r1, k1)
            IN  IF n = 0 THEN 0
                ELSE IF rounding = "down" THEN total \div n
                ELSE (2 * total + n) \div (2 * n)])])

\* the first ext.height rows and ext.width texels of src laid over dst
CopyRegion(src, dst, ext, bpt) ==
    Vec([y \in 1..Len(dst) |-> Vec([x \in 1..Len(dst[y]) |->
        IF y <= ext.height /\ x <= ext.width * bpt
           /\ y <= Len(src) /\ x <= Len(src[y])
        THEN src[y][x] ELSE dst[y][x]])])

\* copy_texture_to_buffer: row y of the region at offset y * bytes_per_row
CopyToBuffer(src, buf, ext, bytes_per_row, bpt) ==
    Vec([k \in 1..Len(buf) |->
        LET y == (k - 1) \div bytes_per_row
            x == (k - 1) % bytes_per_row
        IN  IF y < ext.height /\ x < ext.width * bpt
               /\ y + 1 <= Len(src) /\ x + 1 <= Len(src[y + 1])
            THEN src[y + 1][x + 1] ELSE buf[k]])

HasLevel(st, tex, level) == level + 1 \in DOMAIN st.textures[tex]

\* one recorded command executed on the textures and buffers
ExecCommand(cmd, st, bpt) ==
    LET src == st.textures[cmd.src_texture][cmd.src_level + 1]
        dst == st.textures[cmd.dst_texture][cmd.dst_level + 1]
        buf == st.buffers[cmd.dst_level + 1]
    IN
    IF cmd.op \in {"compute_pass", "render_pass"}
    THEN IF HasLevel(st, cmd.src_texture, cmd.src_level)
            /\ HasLevel(st, cmd.dst_texture, cmd.dst_level)
         THEN [st EXCEPT !.textures[cmd.dst_texture][cmd.dst_level + 1] =
                  BoxFilter(src, dst, bpt)]
         ELSE st
    ELSE IF cmd.op = "copy_texture_to_texture"
    THEN IF HasLevel(st, cmd.src_texture, cmd.src_level)
            /\ HasLevel(st, cmd.dst_texture, cmd.dst_level)
         THEN [st EXCEPT !.textures[cmd.dst_texture][cmd.dst_level + 1] =
                  CopyRegion(src, dst, cmd.extent, bpt)]
         ELSE st
    ELSE IF cmd.op = "copy_texture_to_buffer"
    THEN IF HasLevel(st, cmd.src_texture, cmd.src_level)
         THEN [st EXCEPT !.buffers[cmd.dst_level + 1] =
                  CopyToBuffer(src, buf, cmd.extent, cmd.bytes_per_row, bpt)]
         ELSE st
    ELSE st

\* queue.submit: the recorded commands executed in order
RECURSIVE Submit(_, _, _)
Submit(cmds, st, bpt) ==
    IF cmds = <<>> THEN st
    ELSE CHOOSE after \in {Submit(Tail(cmds), next, bpt) :
                               next \in {ExecCommand(Head(cmds), st, bpt)}} : TRUE

-----------------------------------------------------------------------------
(* generate_and_copy_to_cpu: the inputs and the steps between its awaits *)

\* the width whose rows of MaxBytesPerTexel-byte texels need no padding
AlignedWidth == COPY_BYTES_PER_ROW_ALIGNMENT \div MaxBytesPerTexel

RbShapes ==
    {sh \in ((1..MaxRbWidth) \cup {AlignedWidth}) \X (1..MaxRbHeight) \X (1..MaxRbMip) :
        sh[3] <= FullMipCount(Max(sh[1], sh[2]))}

RbUsages ==
    {TextureUsageBits, {"SAMPLED", "COPY_SRC", "COPY_DST"}, {"COPY_SRC", "COPY_DST"}}

RbDescriptors ==
    {TextureDescriptor(shape, format, "D2", usage) :
        shape \in RbShapes, format \in TextureFormats, usage \in RbUsages}

\* the dense input buffer number seed, n bytes long
\* (bytes below the prime 251, so that no two rows of a texture are equal)
InputBuffer(n, seed) == Vec([k \in 1..n |-> (seed + 7 * k) % 251])

Generators == {"Compute", "Render", "Copy", "Recommended"}

InitReadback ==
    /\ InitGenerators
    /\ rounding \in Roundings
    /\ InitReadbackIdle
    /\ InitThreadsIdle
    /\ InitPureIdle
    /\ pc = "rb_ready"
    /\ generator = "None"
    /\ texture_descriptor = NoDescriptor
    /\ encoder = <<>>
    /\ encoder_before = <<>>
    /\ result = NoResult
    /\ calls = <<>>

\* format_bytes_per_channel hits unimplemented!()
RbUnimplemented(gen, desc) ==
    /\ format_bytes_per_channel(desc.format) = 0
    /\ pc' = "rb_panicked"
    /\ generator' = gen
    /\ texture_descriptor' = desc
    /\ result' = Panic
    /\ UNCHANGED <<encoder, encoder_before, calls>>
    /\ UNCHANGED readbackVars
    /\ UNCHANGED <<threadVars, pureVars>>

\* mutant: the result of generate is dropped instead of propagated
ReturnsEarlyNever(res) == FALSE

\* `generate(...)?`: an Err is returned to the caller at once (and a panic
\* unwinds); only Ok lets the function go on
ReturnsEarly(res) == res.status # "Ok"

\* from the start of generate_and_copy_to_cpu to its first await, on the
\* input buffer `input`
RbRun(gen, desc, input) ==
    LET buffer_dimensions == BaseDimensions(desc)
        bpt == buffer_dimensions.bytes_per_channel
        tmp == CopyTmpDescriptor(desc)
    IN  /\ format_bytes_per_channel(desc.format) # 0
        /\ generator' = gen
        /\ texture_descriptor' = desc
        /\ data' = input
        /\ encoder_before' = <<>>
        /\ calls' = <<>>
        /\ \E created \in {CreateTexture(desc)}, out \in {Generate(gen, <<>>, desc)} :
           \E uploaded \in {WriteTexture(created, input,
                                         buffer_dimensions.unpadded_bytes_per_row,
                                         buffer_dimensions.width,
                                         buffer_dimensions.height, bpt)} :
              IF ReturnsEarly(out.res)
              THEN /\ pc' = IF out.res.status = "Err" THEN "rb_returned"
                                                      ELSE "rb_panicked"
                   /\ result' = out.res
                   /\ encoder' = out.encoder
                   /\ texture' = [texture |-> uploaded, tmp_texture |-> <<>>]
                   /\ buffers' = <<>>
                   /\ events' = <<"write_texture", "generate">>
                   /\ UNCHANGED mip_buffers
              ELSE \E recorded \in {out.encoder \o BufferCopyCommands(desc)},
                      before \in {[textures |-> [texture |-> uploaded,
                                                 tmp_texture |-> CreateTexture(tmp)],
                                   buffers |->
                                       [k \in 1..desc.mip_level_count |->
                                           LET dims == MipDimensions(desc, k - 1)
                                           IN  CreateBuffer(dims.height
                                                            * dims.padded_bytes_per_row)]]} :
                   \E st \in {Submit(recorded, before, bpt)} :
                      /\ pc' = "rb_mapping"
                      /\ result' = NoResult
                      /\ encoder' = recorded
                      /\ texture' = st.textures
                      /\ buffers' = [k \in 1..desc.mip_level_count |->
                                        [buffer |-> st.buffers[k],
                                         dimensions |-> MipDimensions(desc, k - 1)]]
                      /\ events' = <<"write_texture", "generate">>
                                   \o [k \in 1..desc.mip_level_count |->
                                          "copy_texture_to_buffer"]
                                   \o <<"submit">>
                      /\ UNCHANGED mip_buffers
        /\ UNCHANGED genVars
        /\ UNCHANGED <<threadVars, pureVars>>

RbStart ==
    /\ pc = "rb_ready"
    /\ \E gen \in Generators, desc \in RbDescriptors, seed \in 0..MaxSeed :
          \/ RbUnimplemented(gen, desc) /\ UNCHANGED genVars
          \/ \E input \in {InputBuffer(desc.size.width * desc.size.height
                                       * format_bytes_per_channel(desc.format), seed)} :
                RbRun(gen, desc, input)

\* mutant: the mapped range is taken before the map is requested
MapEventsReadFirst == <<"get_mapped_range", "map_async", "poll">>

\* the device operations of one iteration of the map loop: the map request,
\* the blocking poll that completes it (the future is awaited after it), the
\* read of the mapped range
MapEvents == <<"map_async", "poll", "get_mapped_range">>

\* one iteration of the map loop: map buffer `level`, wait, extract its rows
RbMapLevel ==
    /\ pc = "rb_mapping"
    /\ Len(mip_buffers) < Len(buffers)
    /\ LET level == Len(mip_buffers)
           b == buffers[level + 1]
       IN  /\ mip_buffers' = Append(mip_buffers,
                                    [buffer |-> ExactBuffer(b.buffer, b.dimensions),
                                     dimensions |-> b.dimensions,
                                     level |-> level])
           /\ events' = events \o MapEvents
    /\ UNCHANGED <<pc, generator, texture_descriptor, encoder_before, encoder, result,
                   calls, data, texture, buffers>>
    /\ UNCHANGED genVars
    /\ UNCHANGED <<threadVars, pureVars>>

\* Ok(mip_buffers)
RbReturn ==
    /\ pc = "rb_mapping"
    /\ Len(mip_buffers) = Len(buffers)
    /\ pc' = "rb_returned"
    /\ result' = Ok
    /\ UNCHANGED <<generator, texture_descriptor, encoder_before, encoder, calls>>
    /\ UNCHANGED readbackVars
    /\ UNCHANGED genVars
    /\ UNCHANGED <<threadVars, pureVars>>

NextReadback ==
    \/ RbStart
    \/ RbMapLevel
    \/ RbReturn

SpecReadback == InitReadback /\ [][NextReadback]_vars

-----------------------------------------------------------------------------
(* The checkerboard tests: a checkerboard read back through the dispatcher *)

\* util.rs checkerboard_r8 (n >= 1): the byte of id is 0 or 255 by the parity
\* of the square it lies in; note y = id / height
checkerboard_r8(width, height, n) ==
    Vec([k \in 1..(width * height) |->
        LET id == k - 1
            x == id % width
            y == id \div height
        IN  (((x \div n + y \div n) % 2) * 255) % 256])

\* the texture sizes and square sizes of the checkerboards
CheckerSizes == {2 ^ k : k \in 0..MaxCbLog} \cup {PotSize}
CheckerSquares(size) ==
    IF size = PotSize THEN {CheckboardSize}
    ELSE {2 ^ k : k \in 0..MaxCbLog} \cap 1..size

\* the texture descriptor of tests::checkerboard_r8_compute for a given size
CheckerDescriptor(size) ==
    TextureDescriptor(<<size, size, FullMipCount(size)>>, "R8Unorm", "D2",
                      ComputeRequiredUsage \cup {"COPY_DST", "COPY_SRC"})

\* generate_and_copy_to_cpu_recommended builds the dispatcher from the one
\* format of the texture
InitCheckerboard ==
    /\ overflow_checks \in BOOLEAN
    /\ format_hints = <<"R8Unorm">>
    /\ compute_layout_cache = ComputeNew(format_hints)
    /\ compute_pipeline_cache = ComputeNew(format_hints)
    /\ render_layout_cache = RenderNewLayouts
    /\ render_pipeline_cache = RenderNewPipelines(format_hints)
    /\ rounding \in Roundings
    /\ InitReadbackIdle
    /\ InitThreadsIdle
    /\ InitPureIdle
    /\ pc = "cb_ready"
    /\ generator = "None"
    /\ texture_descriptor = NoDescriptor
    /\ encoder = <<>>
    /\ encoder_before = <<>>
    /\ result = NoResult
    /\ calls = <<>>

\* what the assertions of the test read of a level: the length of its buffer,
\* its dimensions and its first byte
Observed(mip) ==
    [len |-> Len(mip.buffer), dimensions |-> mip.dimensions,
     first |-> IF mip.buffer = <<>> THEN 0 ELSE mip.buffer[1]]

\* the body of a checkerboard test: the checkerboard is built, uploaded,
\* generated and read back by generate_and_copy_to_cpu (run to its end by
\* block_on); of the buffers returned the state keeps what the test reads
CbTest ==
    /\ pc = "cb_ready"
    /\ \E gen \in Generators, size \in CheckerSizes :
       \E n \in CheckerSquares(size) :
       \E desc \in {CheckerDescriptor(size)} :
       \E input \in {checkerboard_r8(size, size, n)},
          buffer_dimensions \in {BaseDimensions(desc)},
          out \in {Generate(gen, <<>>, desc)} :
          /\ generator' = gen
          /\ texture_descriptor' = desc
          /\ fn' = "checkerboard_r8"
          /\ args' = <<size, size, n>>
          /\ encoder_before' = <<>>
          /\ calls' = <<>>
          /\ IF out.res.status # "Ok"
             THEN /\ pc' = "cb_failed"
                  /\ result' = out.res
                  /\ encoder' = out.encoder
                  /\ ret' = <<>>
             ELSE \E bpt \in {buffer_dimensions.bytes_per_channel},
                     created \in {CreateTexture(desc)} :
                  \E uploaded \in {WriteTexture(created, input,
                                       buffer_dimensions.unpadded_bytes_per_row,
                                       buffer_dimensions.width,
                                       buffer_dimensions.height, bpt)},
                     recorded \in {out.encoder \o BufferCopyCommands(desc)} :
                  \E before \in {[textures |->
                                     [texture |-> uploaded,
                                      tmp_texture |->
                                          CreateTexture(CopyTmpDescriptor(desc))],
                                  buffers |->
                                      [k \in 1..desc.mip_level_count |->
                                          LET dims == MipDimensions(desc, k - 1)
                                          IN  CreateBuffer(dims.height
                                                           * dims.padded_bytes_per_row)]]} :
                  \E st \in {Submit(recorded, before, bpt)} :
                     /\ pc' = "cb_read_back"
                     /\ result' = Ok
                     /\ encoder' = recorded
                     /\ ret' = [k \in 1..desc.mip_level_count |->
                                   Observed([buffer |->
                                                 ExactBuffer(st.buffers[k],
                                                     MipDimensions(desc, k - 1)),
                                             dimensions |-> MipDimensions(desc, k - 1)])]
    /\ UNCHANGED genVars
    /\ UNCHANGED readbackVars
    /\ UNCHANGED threadVars

NextCheckerboard == CbTest

SpecCheckerboard == InitCheckerboard /\ [][NextCheckerboard]_vars

-----------------------------------------------------------------------------
(* One caller calling generate twice with the same texture and descriptor *)

\* the generators' caches as a record
Caches ==
    [compute_layout |-> compute_layout_cache,
     compute_pipeline |-> compute_pipeline_cache,
     render_layout |-> render_layout_cache,
     render_pipeline |-> render_pipeline_cache]

\* the caches after a generate call that looks a format up by removing its entry
CachesAfterGenerateEvicts(gen, desc) ==
    [Caches EXCEPT !.compute_pipeline = @ \ {desc.format},
                   !.render_pipeline = @ \ {desc.format}]

\* the caches after a generate call that builds and inserts a missing pipeline
CachesAfterGenerateInserts(gen, desc) ==
    [Caches EXCEPT !.compute_pipeline = @ \cup {desc.format},
                   !.render_pipeline = @ \cup {desc.format}]

\* the caches after generate of generator gen on desc: generate takes &self and
\* only reads the caches (HashMap::get)
CachesAfterGenerate(gen, desc) == Caches

\* generate of generator gen called on desc with the caller's encoder
GenerateCalled(gen, desc, position) ==
    \E out \in {Generate(gen, encoder, desc)},
       after \in {CachesAfterGenerate(gen, desc)} :
        /\ pc' = position
        /\ generator' = gen
        /\ texture_descriptor' = desc
        /\ encoder_before' = encoder
        /\ encoder' = out.encoder
        /\ previous' = result
        /\ result' = out.res
        /\ calls' = <<>>
        /\ compute_layout_cache' = after.compute_layout
        /\ compute_pipeline_cache' = after.compute_pipeline
        /\ render_layout_cache' = after.render_layout
        /\ render_pipeline_cache' = after.render_pipeline
        /\ UNCHANGED <<overflow_checks, format_hints, rounding>>
        /\ UNCHANGED <<readbackVars, threads, pureVars>>

FirstCall ==
    /\ pc = "ready"
    /\ \E gen \in Generators, desc \in TextureDescriptors :
          /\ CopyRecorded(desc) <= MaxRecorded
          /\ GenerateCalled(gen, desc, "called_once")

SecondCall ==
    /\ pc = "called_once"
    /\ GenerateCalled(generator, texture_descriptor, "called_twice")

NextTwice ==
    \/ FirstCall
    \/ SecondCall

SpecTwice == Init /\ [][NextTwice]_vars

-----------------------------------------------------------------------------
(* Several threads calling generate on one shared generator *)

\* The generators hold no lock and no interior mutability: a backend's generate
\* reads the caches and records into the caller's own encoder.  A thread's call
\* is split at the backend boundaries (the dispatcher's three attempts); within
\* a backend the cache reads are one step, nothing in the code writing the
\* caches in between.

Threads == 1..NumThreads

IdleThread ==
    [pc |-> "idle", generator |-> "None", desc |-> NoDescriptor,
     encoder |-> <<>>, result |-> NoResult, attempts |-> <<>>]

\* the descriptors the threads call with: a format every backend built, a usage
\* only Render and Copy accept, a format only Render built, a format nobody built
ThreadDescriptors ==
    {TextureDescriptor(<<2, 2, 2>>, "R8Unorm", "D2", TextureUsageBits),
     TextureDescriptor(<<2, 2, 2>>, "R8Unorm", "D2",
                       {"SAMPLED", "RENDER_ATTACHMENT", "COPY_DST"}),
     TextureDescriptor(<<2, 2, 2>>, "Depth32Float", "D2", TextureUsageBits),
     TextureDescriptor(<<2, 2, 2>>, "Rgba8Sint", "D2", TextureUsageBits)}

\* the backend a call to generator gen enters first
FirstBackend(gen) == IF gen = "Recommended" THEN "Compute" ELSE gen

\* the backend the dispatcher tries after backend failed
NextBackend(backend) == IF backend = "Compute" THEN "Render" ELSE "Copy"

InitThreads ==
    /\ InitGenerators
    /\ rounding = "down"
    /\ InitReadbackIdle
    /\ InitPureIdle
    /\ pc = "threads"
    /\ generator = "None"
    /\ texture_descriptor = NoDescriptor
    /\ encoder = <<>>
    /\ encoder_before = <<>>
    /\ result = NoResult
    /\ calls = <<>>
    /\ previous = NoResult
    /\ threads = [t \in Threads |-> IdleThread]

ThreadsStep(next) ==
    /\ threads' = next
    /\ UNCHANGED <<overflow_checks, format_hints, rounding>>
    /\ UNCHANGED <<pc, generator, texture_descriptor, encoder_before, encoder,
                   result, calls, previous>>
    /\ UNCHANGED <<readbackVars, pureVars>>

CachesStep(after) ==
    /\ compute_layout_cache' = after.compute_layout
    /\ compute_pipeline_cache' = after.compute_pipeline
    /\ render_layout_cache' = after.render_layout
    /\ render_pipeline_cache' = after.render_pipeline

\* thread t calls generate of gen on desc with an encoder of its own
ThreadCall(t) ==
    /\ threads[t].pc = "idle"
    /\ \E gen \in Generators, desc \in ThreadDescriptors :
          ThreadsStep([threads EXCEPT ![t] =
              [pc |-> FirstBackend(gen), generator |-> gen, desc |-> desc,
               encoder |-> <<>>, result |-> NoResult, attempts |-> <<>>]])
    /\ UNCHANGED <<compute_layout_cache, compute_pipeline_cache,
                   render_layout_cache, render_pipeline_cache>>

\* thread t runs the backend it stands at; the dispatcher goes on to the next
\* backend on an error and turns the last error into UnsupportedUsage
ThreadBackend(t, backend) ==
    /\ threads[t].pc = backend
    /\ \E th \in {threads[t]} :
       \E out \in {Generate(backend, th.encoder, th.desc)} :
       \E log \in {Append(th.attempts, Call(backend, out.res))} :
          /\ CachesStep(CachesAfterGenerate(backend, th.desc))
          /\ IF th.generator = "Recommended" /\ out.res.status = "Err"
             THEN IF backend = "Copy"
                  THEN ThreadsStep([threads EXCEPT ![t] =
                           [th EXCEPT !.pc = "done", !.encoder = out.encoder,
                                      !.result = Err(UnsupportedUsage(th.desc.usage)),
                                      !.attempts = log]])
                  ELSE ThreadsStep([threads EXCEPT ![t] =
                           [th EXCEPT !.pc = NextBackend(backend),
                                      !.encoder = out.encoder,
                                      !.attempts = log]])
             ELSE ThreadsStep([threads EXCEPT ![t] =
                      [th EXCEPT !.pc = "done", !.encoder = out.encoder,
                                 !.result = out.res, !.attempts = log]])

ThreadCompute(t) == ThreadBackend(t, "Compute")
ThreadRender(t) == ThreadBackend(t, "Render")
ThreadCopy(t) == ThreadBackend(t, "Copy")

NextThreads ==
    \E t \in Threads :
        \/ ThreadCall(t)
        \/ ThreadCompute(t)
        \/ ThreadRender(t)
        \/ ThreadCopy(t)

SpecThreads == InitThreads /\ [][NextThreads]_vars

-----------------------------------------------------------------------------
(* Construction from any list of format hints, then one call *)

\* the hint lists of up to MaxHints formats, repetitions included
HintSeqs == UNION {[1..n -> TextureFormats] : n \in 0..MaxHints}

HintUsages == {TextureUsageBits, ComputeRequiredUsage, RenderRequiredUsage, {}}

HintDescriptors ==
    {TextureDescriptor(<<w, h, m>>, format, dimension, usage) :
        w \in 0..MaxSize, h \in 0..MaxSize, m \in 0..MaxMip,
        format \in TextureFormats, dimension \in TextureDimensions,
        usage \in HintUsages}

\* before new_with_format_hints: no generator yet
InitUnbuilt ==
    /\ overflow_checks \in BOOLEAN
    /\ format_hints = <<>>
    /\ compute_layout_cache = {}
    /\ compute_pipeline_cache = {}
    /\ render_layout_cache = {}
    /\ render_pipeline_cache = {}
    /\ rounding = "down"
    /\ InitReadbackIdle
    /\ InitThreadsIdle
    /\ InitPureIdle
    /\ pc = "unbuilt"
    /\ generator = "None"
    /\ texture_descriptor = NoDescriptor
    /\ encoder = <<>>
    /\ encoder_before = <<>>
    /\ result = NoResult
    /\ calls = <<>>

\* ComputeMipmapGenerator::new_with_format_hints and
\* RenderMipmapGenerator::new_with_format_hints on the same hints; both return
\* Self on every path
NewWithFormatHints ==
    /\ pc = "unbuilt"
    /\ \E hints \in HintSeqs :
          /\ format_hints' = hints
          /\ compute_layout_cache' = ComputeNew(hints)
          /\ compute_pipeline_cache' = ComputeNew(hints)
          /\ render_layout_cache' = RenderNewLayouts
          /\ render_pipeline_cache' = RenderNewPipelines(hints)
    /\ pc' = "ready"
    /\ UNCHANGED <<overflow_checks, rounding, generator, texture_descriptor,
                   encoder_before, encoder, result, calls>>
    /\ UNCHANGED <<readbackVars, threadVars, pureVars>>

CallBuilt ==
    /\ pc = "ready"
    /\ \E gen \in {"Compute", "Render"}, desc \in HintDescriptors :
          GenerateCalled(gen, desc, "returned")

NextHints ==
    \/ NewWithFormatHints
    \/ CallBuilt

SpecHints == InitUnbuilt /\ [][NextHints]_vars

-----------------------------------------------------------------------------
(* The pure functions of util.rs applied to drawn arguments *)

\* the return of a pure function: a value, or a panic
Returns(v) == [status |-> "Ok", value |-> v]
Panics == [status |-> "Panic", value |-> <<>>]

\* a call of get_mip_extent: 2u32.pow(level) overflows for level >= 32, which
\* panics in a build with overflow checks
GetMipExtentCall(extent, level) ==
    IF overflow_checks /\ level >= U32Bits THEN Panics
    ELSE Returns(get_mip_extent(extent, level))

\* get_mip_extent(get_mip_extent(extent, 1), level - 1), as the Copy backend
\* composes it (tmp_descriptor.size, then the levels of the temporary texture)
HalveThenLevelCall(extent, level) ==
    LET half == GetMipExtentCall(extent, 1)
    IN  IF half.status # "Ok" THEN half
        ELSE GetMipExtentCall(half.value, level - 1)

\* axes 0..MaxAxis, and the first axes an f32 cannot hold
PureAxes ==
    (0..MaxAxis) \cup {2 ^ F32Mantissa + 1, 2 ^ (F32Mantissa + 1) - 1}

PureLevels == (0..MaxLevel) \cup {U32Bits - 1, U32Bits, U32Bits + 1}

\* widths around the row alignment
PureWidths ==
    (0..MaxAxis) \cup {COPY_BYTES_PER_ROW_ALIGNMENT - 1, COPY_BYTES_PER_ROW_ALIGNMENT,
                       COPY_BYTES_PER_ROW_ALIGNMENT + 1, 2 * COPY_BYTES_PER_ROW_ALIGNMENT}

PureBytesPerChannel ==
    {format_bytes_per_channel(f) : f \in TextureFormats} \cup {COPY_BYTES_PER_ROW_ALIGNMENT}

PureFunctions == {"get_mip_extent", "halve_then_level", "MipBufferDimensions::new"}

PureArgs(f) ==
    IF f = "get_mip_extent"
    THEN {<<Extent3d(w, h, d), level>> :
             w \in PureAxes, h \in PureAxes, d \in {0, 1, 2}, level \in PureLevels}
    ELSE IF f = "halve_then_level"
    THEN {<<Extent3d(w, h, 1), level>> :
             w \in PureAxes, h \in PureAxes, level \in PureLevels \ {0}}
    ELSE PureWidths \X (0..MaxPureHeight) \X PureBytesPerChannel

InitPure ==
    /\ InitGenerators
    /\ rounding = "down"
    /\ InitReadbackIdle
    /\ InitThreadsIdle
    /\ pc = "pure_ready"
    /\ generator = "None"
    /\ texture_descriptor = NoDescriptor
    /\ encoder = <<>>
    /\ encoder_before = <<>>
    /\ result = NoResult
    /\ calls = <<>>
    /\ format_hints = <<>>
    /\ fn \in PureFunctions
    /\ args \in PureArgs(fn)
    /\ ret = <<>>

PureReturned(v) ==
    /\ pc' = "pure_returned"
    /\ ret' = v
    /\ UNCHANGED <<generator, texture_descriptor, encoder_before, encoder, result, calls,
                   fn, args>>
    /\ UNCHANGED <<genVars, readbackVars, threadVars>>

ApplyGetMipExtent ==
    /\ pc = "pure_ready"
    /\ fn = "get_mip_extent"
    /\ PureReturned(GetMipExtentCall(args[1], args[2]))

ApplyHalveThenLevel ==
    /\ pc = "pure_ready"
    /\ fn = "halve_then_level"
    /\ PureReturned(HalveThenLevelCall(args[1], args[2]))

ApplyMipBufferDimensions ==
    /\ pc = "pure_ready"
    /\ fn = "MipBufferDimensions::new"
    /\ PureReturned(Returns(MipBufferDimensions(args[1], args[2], args[3])))

NextPure ==
    \/ ApplyGetMipExtent
    \/ ApplyHalveThenLevel
    \/ ApplyMipBufferDimensions

SpecPure == InitPure /\ [][NextPure]_vars

-----------------------------------------------------------------------------
(* Claims *)

ReturnedFrom(gen) == pc = "returned" /\ generator = gen

\* the backend named b, run alone on the call's encoder and descriptor
Alone(b) ==
    CASE b = "Compute" -> ComputeGenerate(encoder_before, texture_descriptor)
      [] b = "Render" -> RenderGenerate(encoder_before, texture_descriptor)
      [] b = "Copy" -> CopyGenerate(encoder_before, texture_descriptor)

FallbackOrder == <<"Compute", "Render", "Copy">>

\* C1: the dispatcher invokes the backends in the order Compute, Render, Copy;
\* every backend invoked before the last one returned an error, each invocation
\* returned what that backend returns on this descriptor, and a backend that
\* returns Ok is the last one invoked and makes the dispatcher return Ok.
C1_FallbackOrder ==
    ReturnedFrom("Recommended") =>
        /\ Len(calls) \in 1..3
        /\ \A i \in 1..Len(calls) :
              /\ calls[i].backend = FallbackOrder[i]
              /\ calls[i].res = Alone(FallbackOrder[i]).res
              /\ (i < Len(calls) => calls[i].res.status = "Err")
              /\ (calls[i].res.status = "Ok" => (i = Len(calls) /\ result = Ok))
        /\ (Len(calls) < 3 => calls[Len(calls)].res.status # "Err")

\* C1 witness: Compute and Render failed and Copy, invoked third, succeeded
C1_Witness ==
    /\ ReturnedFrom("Recommended")
    /\ Len(calls) = 3
    /\ calls[1].res.status = "Err"
    /\ calls[2].res.status = "Err"
    /\ calls[3].res = Ok
    /\ result = Ok

\* C2: the dispatcher returns an error exactly when Compute, Render and Copy
\* each return an error on the descriptor, and the error is then
\* UnsupportedUsage(descriptor usage) whatever the three errors were.
C2_AllFailedGivesUnsupportedUsage ==
    ReturnedFrom("Recommended") =>
        /\ result.status = "Err" <=>
              (\A i \in 1..3 : Alone(FallbackOrder[i]).res.status = "Err")
        /\ result.status = "Err" <=>
              (Len(calls) = 3 /\ \A i \in 1..3 : calls[i].res.status = "Err")
        /\ result.status = "Err" =>
              result.err = UnsupportedUsage(texture_descriptor.usage)

\* C2 witness: the three backends failed with errors other than
\* UnsupportedUsage and the dispatcher returned UnsupportedUsage(usage)
C2_Witness ==
    /\ ReturnedFrom("Recommended")
    /\ Len(calls) = 3
    /\ calls[1].res = Err(NpotTexture)
    /\ calls[2].res = Err(UnknownFormat(texture_descriptor.format))
    /\ calls[3].res = Err(UnknownFormat(texture_descriptor.format))
    /\ texture_descriptor.usage # {}
    /\ result = Err(UnsupportedUsage(texture_descriptor.usage))

\* C3: a call that returns an error leaves the encoder as it was; a dispatcher
\* call that succeeds leaves the encoder as the succeeding backend alone would.
C3_ErrorLeavesEncoderUnchanged ==
    pc = "returned" =>
        /\ result.status = "Err" => encoder = encoder_before
        /\ (generator = "Recommended" /\ result = Ok) =>
              encoder = Alone(calls[Len(calls)].backend).encoder

\* C3 witness: the dispatcher succeeded through Render after Compute failed,
\* and the encoder gained commands
C3_Witness ==
    /\ ReturnedFrom("Recommended")
    /\ result = Ok
    /\ Len(calls) = 2
    /\ calls[1].res.status = "Err"
    /\ encoder_before # <<>>
    /\ Len(encoder) > Len(encoder_before)

NoGenerationUsage(u) ==
    u \cap {"STORAGE", "RENDER_ATTACHMENT", "COPY_SRC", "COPY_DST"} = {}

\* C4: for a 2D texture (of nonzero size, with at least one mip level) whose
\* usage has none of the storage, render-attachment, copy-source and
\* copy-destination bits, the dispatcher returns Err(UnsupportedUsage(usage)).
C4_NoUsageFails ==
    (/\ ReturnedFrom("Recommended")
     /\ texture_descriptor.dimension = "D2"
     /\ texture_descriptor.mip_level_count >= 1
     /\ texture_descriptor.size.width >= 1
     /\ texture_descriptor.size.height >= 1
     /\ NoGenerationUsage(texture_descriptor.usage))
    => result = Err(UnsupportedUsage(texture_descriptor.usage))

\* the result the documented order of Compute's checks gives
ComputeExpected(desc) ==
    IF ~(is_power_of_two(desc.size.width) /\ is_power_of_two(desc.size.height))
    THEN Err(NpotTexture)
    ELSE IF desc.dimension # "D2" THEN Err(UnsupportedDimension(desc.dimension))
    ELSE IF "STORAGE" \notin desc.usage THEN Err(UnsupportedUsage(desc.usage))
    ELSE IF desc.format \notin compute_pipeline_cache
    THEN Err(UnknownFormat(desc.format))
    ELSE Ok

\* C5: Compute returns the first failing check in the order power-of-two size,
\* 2D dimension, STORAGE usage, cached format, and Ok when none fails.
C5_ComputeCheckOrder ==
    ReturnedFrom("Compute") => result = ComputeExpected(texture_descriptor)

\* C5 witness: a non-power-of-two texture that also fails every later check
\* got NpotTexture
C5_Witness ==
    /\ ReturnedFrom("Compute")
    /\ ~is_power_of_two(texture_descriptor.size.height)
    /\ texture_descriptor.dimension = "D3"
    /\ "STORAGE" \notin texture_descriptor.usage
    /\ texture_descriptor.format \notin compute_pipeline_cache
    /\ result = Err(NpotTexture)

\* the result the documented order of Render's checks gives
RenderExpected(desc) ==
    IF desc.dimension # "D2" THEN Err(UnsupportedDimension(desc.dimension))
    ELSE IF ~({"SAMPLED", "RENDER_ATTACHMENT"} \subseteq desc.usage)
    THEN Err(UnsupportedUsage(desc.usage))
    ELSE IF desc.format \notin render_pipeline_cache
    THEN Err(UnknownFormat(desc.format))
    ELSE Ok

\* C6: Render returns the first failing check in the order 2D dimension,
\* SAMPLED and RENDER_ATTACHMENT usage, cached format, and Ok when none fails;
\* the size plays no part.
C6_RenderCheckOrder ==
    ReturnedFrom("Render") => result = RenderExpected(texture_descriptor)

\* C6 witness: Render succeeded on a texture whose size is not a power of two
C6_Witness ==
    /\ ReturnedFrom("Render")
    /\ texture_descriptor.size.width = NpotSize
    /\ texture_descriptor.mip_level_count = FullMipCount(NpotSize)
    /\ result = Ok
    /\ Len(encoder) = Len(encoder_before) + FullMipCount(NpotSize) - 1

\* C7: on a 2D texture of nonzero size with at least one mip level and a
\* format the render backend has a pipeline for, Copy succeeds only when the
\* usage contains SAMPLED and COPY_DST, and returns
\* Err(UnsupportedUsage(caller's usage)) when it lacks one of them.
C7_CopyRequiresItsUsage ==
    (/\ ReturnedFrom("Copy")
     /\ texture_descriptor.dimension = "D2"
     /\ texture_descriptor.mip_level_count >= 1
     /\ texture_descriptor.size.width >= 1
     /\ texture_descriptor.size.height >= 1
     /\ texture_descriptor.format \in render_pipeline_cache) =>
        /\ result = Ok => CopyRequiredUsage \subseteq texture_descriptor.usage
        /\ ~(CopyRequiredUsage \subseteq texture_descriptor.usage) =>
              result = Err(UnsupportedUsage(texture_descriptor.usage))

\* the descriptor of the call is 2D and NpotSize x NpotSize
IsNpotScenario(desc) ==
    /\ desc.size = Extent3d(NpotSize, NpotSize, 1)
    /\ desc.dimension = "D2"

\* what C8 says of a call on descriptor texture_descriptor
NpotScenarioHolds ==
    /\ generator = "Compute" =>
          (result = Err(NpotTexture) /\ Alone("Copy").res = Ok)
    /\ generator = "Copy" =>
          (result = Ok /\ Alone("Compute").res = Err(NpotTexture))

\* C8 as stated: for a 2D 511x511 descriptor whose format is in the hint list,
\* Compute fails with NpotTexture and Copy succeeds on the same descriptor.
C8_NpotScenarioAsStated ==
    (/\ pc = "returned"
     /\ generator \in {"Compute", "Copy"}
     /\ IsNpotScenario(texture_descriptor)
     /\ texture_descriptor.format \in SeqRange(format_hints)
     /\ CopyRecorded(texture_descriptor) <= MaxRecorded)
    => NpotScenarioHolds

\* C8 amended: for a 2D 511x511 descriptor with at least one mip level whose
\* format has a cached render pipeline and whose usage contains Copy's
\* required usage, Compute fails with NpotTexture and Copy succeeds.
C8_NpotScenario ==
    (/\ pc = "returned"
     /\ generator \in {"Compute", "Copy"}
     /\ IsNpotScenario(texture_descriptor)
     /\ texture_descriptor.mip_level_count >= 1
     /\ texture_descriptor.format \in render_pipeline_cache
     /\ CopyRequiredUsage \subseteq texture_descriptor.usage)
    => NpotScenarioHolds

\* C8 witness: Copy succeeded on the tests' 511x511 descriptor and recorded
\* its render passes and copies
C8_Witness ==
    /\ ReturnedFrom("Copy")
    /\ IsNpotScenario(texture_descriptor)
    /\ texture_descriptor.mip_level_count = FullMipCount(NpotSize)
    /\ texture_descriptor.format = "R8Unorm"
    /\ texture_descriptor.usage = CopyRequiredUsage
    /\ result = Ok
    /\ Len(encoder) = Len(encoder_before) + 2 * (FullMipCount(NpotSize) - 1)
    /\ Alone("Compute").res = Err(NpotTexture)

\* the format is in neither cache and the descriptor is otherwise valid for
\* the generator that was called
UnknownFormatCase(desc) ==
    /\ desc.format \notin compute_pipeline_cache
    /\ desc.format \notin render_pipeline_cache
    /\ desc.dimension = "D2"
    /\ is_power_of_two(desc.size.width)
    /\ is_power_of_two(desc.size.height)
    /\ CASE generator = "Compute" -> ComputeRequiredUsage \subseteq desc.usage
         [] generator = "Render" -> RenderRequiredUsage \subseteq desc.usage
         [] generator = "Copy" -> CopyRequiredUsage \subseteq desc.usage
         [] generator = "Recommended" ->
               (ComputeRequiredUsage \cup RenderRequiredUsage \cup CopyRequiredUsage)
                   \subseteq desc.usage

\* C9 as stated: with the format in neither cache and the descriptor otherwise
\* valid, every generator (the dispatcher included) fails with
\* UnknownFormat(format).
C9_UnknownFormatAsStated ==
    (/\ pc = "returned"
     /\ texture_descriptor.mip_level_count >= 1
     /\ UnknownFormatCase(texture_descriptor))
    => result = Err(UnknownFormat(texture_descriptor.format))

\* C9 amended: with the format in neither cache and the descriptor otherwise
\* valid (at least one mip level), Compute, Render and Copy fail with
\* UnknownFormat(format) and the dispatcher fails with UnsupportedUsage(usage).
C9_UnknownFormat ==
    (/\ pc = "returned"
     /\ texture_descriptor.mip_level_count >= 1
     /\ UnknownFormatCase(texture_descriptor))
    => IF generator = "Recommended"
       THEN result = Err(UnsupportedUsage(texture_descriptor.usage))
       ELSE result = Err(UnknownFormat(texture_descriptor.format))

\* C9 witness: the dispatcher was given a hinted format that neither cache
\* holds, with every backend's required usage, and each backend it tried
\* failed with UnknownFormat
C9_Witness ==
    /\ ReturnedFrom("Recommended")
    /\ UnknownFormatCase(texture_descriptor)
    /\ texture_descriptor.mip_level_count >= 1
    /\ texture_descriptor.format \in SeqRange(format_hints)
    /\ \A i \in 1..3 :
          calls[i].res = Err(UnknownFormat(texture_descriptor.format))
    /\ result.status = "Err"

\* C10: when generate_and_copy_to_cpu succeeds, the MipBuffer of level 0 holds
\* exactly the bytes of the input buffer.
C10_Level0RoundTrip ==
    (pc = "rb_returned" /\ result = Ok) =>
        /\ Len(mip_buffers) >= 1
        /\ mip_buffers[1].level = 0
        /\ mip_buffers[1].buffer = data

\* C10 witness: a successful run on a texture whose rows are padded in the
\* readback buffer, with more than one row and generated mip levels
C10_Witness ==
    /\ pc = "rb_returned"
    /\ result = Ok
    /\ texture_descriptor.size.height > 1
    /\ texture_descriptor.mip_level_count > 1
    /\ mip_buffers[1].dimensions.padded_bytes_per_row
          > mip_buffers[1].dimensions.unpadded_bytes_per_row
    /\ Len(data) > 1
    /\ mip_buffers[1].buffer = data

\* C11: on success generate_and_copy_to_cpu returns mip_level_count MipBuffers,
\* entry i with level i and with exactly w_i * h_i * bytes_per_texel bytes,
\* w_i = max(1, width / 2^i) and h_i = max(1, height / 2^i): no row padding.
C11_OneDenseBufferPerLevel ==
    (pc = "rb_returned" /\ result = Ok) =>
        /\ Len(mip_buffers) = texture_descriptor.mip_level_count
        /\ \A k \in 1..Len(mip_buffers) :
              /\ mip_buffers[k].level = k - 1
              /\ Len(mip_buffers[k].buffer) =
                    Max(texture_descriptor.size.width \div (2 ^ (k - 1)), 1)
                    * Max(texture_descriptor.size.height \div (2 ^ (k - 1)), 1)
                    * format_bytes_per_channel(texture_descriptor.format)

\* C11 witness: three levels returned for a texture whose rows are padded in
\* the readback buffers and whose height is clamped to 1 at the last level
C11_Witness ==
    /\ pc = "rb_returned"
    /\ result = Ok
    /\ Len(mip_buffers) = 3
    /\ texture_descriptor.size.height = 2
    /\ mip_buffers[3].level = 2
    /\ mip_buffers[3].dimensions.height = 1
    /\ mip_buffers[3].dimensions.padded_bytes_per_row
          > mip_buffers[3].dimensions.unpadded_bytes_per_row
    /\ Len(mip_buffers[3].buffer) = mip_buffers[3].dimensions.unpadded_bytes_per_row

\* max(1, floor(axis / 2^level)) in exact arithmetic (an axis of the model is
\* below 2^(U32Bits - 1))
ExactMipAxis(axis, level) ==
    IF level >= U32Bits - 1 THEN 1 ELSE Max(1, axis \div (2 ^ level))

ExactMipExtent(extent, level) ==
    Extent3d(ExactMipAxis(extent.width, level),
             ExactMipAxis(extent.height, level),
             ExactMipAxis(extent.depth, level))

\* C12: get_mip_extent returns, for every extent and level, without failing,
\* the extent whose axes are max(1, floor(axis / 2^level)).
C12_GetMipExtentTotal ==
    (pc = "pure_returned" /\ fn = "get_mip_extent") =>
        ret = Returns(ExactMipExtent(args[1], args[2]))

\* C13: for every extent E and level L >= 1,
\* get_mip_extent(get_mip_extent(E, 1), L - 1) = get_mip_extent(E, L).
C13_HalvingComposes ==
    (pc = "pure_returned" /\ fn = "halve_then_level") =>
        /\ ret.status = "Ok"
        /\ ret = GetMipExtentCall(args[1], args[2])

\* C14: MipBufferDimensions::new clamps width and height to at least 1, sets
\* unpadded_bytes_per_row = width * bytes_per_channel, and pads it up to the
\* next multiple of the alignment: padded >= unpadded, padded is a multiple of
\* the alignment, padded - unpadded < alignment, and padded = unpadded when
\* unpadded is a multiple already.
C14_BufferDimensions ==
    (pc = "pure_returned" /\ fn = "MipBufferDimensions::new") =>
        LET d == ret.value
            align == COPY_BYTES_PER_ROW_ALIGNMENT
        IN  /\ ret.status = "Ok"
            /\ d.width = Max(args[1], 1)
            /\ d.height = Max(args[2], 1)
            /\ d.bytes_per_channel = args[3]
            /\ d.unpadded_bytes_per_row = d.width * args[3]
            /\ d.padded_bytes_per_row >= d.unpadded_bytes_per_row
            /\ d.padded_bytes_per_row % align = 0
            /\ d.padded_bytes_per_row - d.unpadded_bytes_per_row < align
            /\ (d.unpadded_bytes_per_row % align = 0
                   => d.padded_bytes_per_row = d.unpadded_bytes_per_row)

\* C14 witness: a clamped width, and a row that needs padding
C14_Witness ==
    /\ pc = "pure_returned"
    /\ fn = "MipBufferDimensions::new"
    /\ args[1] = 0
    /\ args[2] = 0
    /\ ret.value.width = 1
    /\ ret.value.height = 1
    /\ ret.value.unpadded_bytes_per_row = MaxBytesPerTexel
    /\ ret.value.padded_bytes_per_row = COPY_BYTES_PER_ROW_ALIGNMENT

\* the commands the call appended to the encoder
Appended == SubSeq(encoder, Len(encoder_before) + 1, Len(encoder))

C16_SecondCallSameOutcome ==
    pc = "called_twice" =>
        /\ result = previous
        /\ compute_layout_cache = ComputeNew(format_hints)
        /\ compute_pipeline_cache = ComputeNew(format_hints)
        /\ render_layout_cache = RenderNewLayouts
        /\ render_pipeline_cache = RenderNewPipelines(format_hints)

\* C16 witness: the dispatcher succeeded twice on the same descriptor, the
\* second call appending to what the first recorded
C16_Witness ==
    /\ pc = "called_twice"
    /\ generator = "Recommended"
    /\ previous = Ok
    /\ result = Ok
    /\ texture_descriptor.mip_level_count >= 2
    /\ encoder_before # <<>>
    /\ Len(encoder) > Len(encoder_before)

\* C17: under every interleaving of the threads' calls on the shared
\* generator, the caches stay as construction left them, and a finished call
\* has the outcome and the recorded commands of the same call run alone.
C17_ThreadsDoNotInterfere ==
    /\ compute_layout_cache = ComputeNew(format_hints)
    /\ compute_pipeline_cache = ComputeNew(format_hints)
    /\ render_layout_cache = RenderNewLayouts
    /\ render_pipeline_cache = RenderNewPipelines(format_hints)
    /\ pc = "threads" =>
          \A t \in DOMAIN threads :
              threads[t].pc = "done" =>
                  /\ threads[t].result =
                         Generate(threads[t].generator, <<>>, threads[t].desc).res
                  /\ threads[t].encoder =
                         Generate(threads[t].generator, <<>>, threads[t].desc).encoder

\* C17 witness: one thread's dispatcher call finished on its Render fallback
\* while another thread's dispatcher call on a different texture is between its
\* Compute and Render attempts
C17_Witness ==
    /\ pc = "threads"
    /\ \E t, u \in DOMAIN threads :
          /\ t # u
          /\ threads[t].pc = "done"
          /\ threads[t].generator = "Recommended"
          /\ threads[t].result = Ok
          /\ Len(threads[t].attempts) = 2
          /\ threads[u].pc = "Render"
          /\ threads[u].generator = "Recommended"
          /\ threads[u].desc # threads[t].desc

\* a descriptor that passes every check of generator gen but the format lookup
OtherwiseValid(gen, desc) ==
    /\ desc.dimension = "D2"
    /\ gen = "Compute" =>
          /\ is_power_of_two(desc.size.width)
          /\ is_power_of_two(desc.size.height)
          /\ ComputeRequiredUsage \subseteq desc.usage
    /\ gen = "Render" => RenderRequiredUsage \subseteq desc.usage

\* the hints the claim says are built: for Compute those with a kernel, for
\* Render those whose sample type is neither unsigned nor signed integer
SaidBuilt(gen, format) ==
    IF gen = "Compute" THEN shader_for_format(format)
    ELSE to_sample_type(format) \notin {"Uint", "Sint"}

\* C18: construction from any hint list yields a generator (there is no failed
\* construction); afterwards generate on an otherwise valid texture of a
\* hinted format returns Ok if the hint was built and UnknownFormat(format) if
\* it was skipped.
C18_HintsBuiltOrSkipped ==
    /\ pc \in {"ready", "returned"} =>
          /\ compute_layout_cache =
                 {f \in SeqRange(format_hints) : SaidBuilt("Compute", f)}
          /\ compute_pipeline_cache = compute_layout_cache
          /\ render_pipeline_cache =
                 {f \in SeqRange(format_hints) : SaidBuilt("Render", f)}
    /\ ( /\ pc = "returned"
         /\ generator \in {"Compute", "Render"}
         /\ OtherwiseValid(generator, texture_descriptor)
         /\ texture_descriptor.format \in SeqRange(format_hints) )
       => result = IF SaidBuilt(generator, texture_descriptor.format)
                   THEN Ok
                   ELSE Err(UnknownFormat(texture_descriptor.format))

\* C18 witness: a hint list with a repeated buildable format and a skipped one;
\* Render answers UnknownFormat for the skipped hint
C18_Witness ==
    /\ pc = "returned"
    /\ generator = "Render"
    /\ Len(format_hints) = 3
    /\ format_hints[1] = format_hints[3]
    /\ format_hints[1] = "Depth32Float"
    /\ format_hints[2] = "Rgba8Sint"
    /\ texture_descriptor.format = "Rgba8Sint"
    /\ OtherwiseValid("Render", texture_descriptor)
    /\ texture_descriptor.mip_level_count = 2
    /\ result = Err(UnknownFormat("Rgba8Sint"))

\* C19: a square R8Unorm checkerboard with as many squares of 0 as of 255, a
\* full mip chain and storage usage, generated through the dispatcher and read
\* back, ends in a 1x1 level whose single byte is 127 or 128; the 512x512
\* texture with 16-pixel squares and 10 levels is one of them.
C19_CheckerboardAverage ==
    ( /\ pc \in {"cb_failed", "cb_read_back"}
      /\ generator = "Recommended"
      /\ 2 * args[3] <= args[1] )
    => /\ result = Ok
       /\ Len(ret) = texture_descriptor.mip_level_count
       /\ \A k \in 1..Len(ret) :
             ret[k].len = ret[k].dimensions.unpadded_bytes_per_row
                          * ret[k].dimensions.height
       /\ ret[Len(ret)].dimensions.width = 1
       /\ ret[Len(ret)].dimensions.height = 1
       /\ ret[Len(ret)].len = 1
       /\ ret[Len(ret)].first \in {127, 128}

\* C19 witness: the 512x512 checkerboard of 16-pixel squares with 10 levels has
\* been read back through the dispatcher
C19_Witness ==
    /\ pc = "cb_read_back"
    /\ generator = "Recommended"
    /\ args = <<PotSize, PotSize, CheckboardSize>>
    /\ texture_descriptor.size = Extent3d(PotSize, PotSize, 1)
    /\ texture_descriptor.mip_level_count = 10
    /\ texture_descriptor.format = "R8Unorm"
    /\ "STORAGE" \in texture_descriptor.usage
    /\ result = Ok
    /\ Len(ret) = 10
    /\ ret[10].first \in {127, 128}

\* C20: whenever Render's generate returns Ok for a descriptor, Copy's
\* generate built on the same Render generator completes with Ok for that
\* descriptor, for every mip_level_count.
C20_CopyAsPermissiveAsRender ==
    ( /\ ReturnedFrom("Copy")
      /\ texture_descriptor.size.width >= 1
      /\ texture_descriptor.size.height >= 1
      /\ Alone("Render").res = Ok )
    => result = Ok

\* C21: a successful Copy call on a target of N >= 1 levels appends N-1 render
\* passes into the temporary texture and then N-1 texture-to-texture copies;
\* copy i moves temporary level i into target level i+1 with the extent of
\* target level i+1, and it comes after the pass that rendered temporary level i.
C21_CopyPassesThenCopies ==
    (ReturnedFrom("Copy") /\ result = Ok /\ texture_descriptor.mip_level_count >= 1) =>
        LET N == texture_descriptor.mip_level_count
        IN  /\ Len(Appended) = 2 * (N - 1)
            /\ \A m \in 1..(N - 1) :
                  /\ Appended[m].op = "render_pass"
                  /\ Appended[m].dst_texture = "tmp_texture"
                  /\ Appended[m].dst_level = m - 1
            /\ \A i \in 0..(N - 2) :
                  LET copy == Appended[N - 1 + i + 1]
                  IN  /\ copy.op = "copy_texture_to_texture"
                      /\ copy.src_texture = "tmp_texture"
                      /\ copy.src_level = i
                      /\ copy.dst_texture = "texture"
                      /\ copy.dst_level = i + 1
                      /\ copy.extent = ExactMipExtent(texture_descriptor.size, i + 1)
                      /\ \E m \in 1..(N - 1 + i) :
                            /\ Appended[m].op = "render_pass"
                            /\ Appended[m].dst_texture = copy.src_texture
                            /\ Appended[m].dst_level = copy.src_level

\* C21 witness: a successful Copy call on the 511x511 texture with its full
\* chain of 9 levels
C21_Witness ==
    /\ ReturnedFrom("Copy")
    /\ result = Ok
    /\ texture_descriptor.size.width = NpotSize
    /\ texture_descriptor.mip_level_count = 9
    /\ Len(Appended) = 16
    /\ Appended[16].extent = Extent3d(1, 1, 1)
    /\ Appended[9].extent = Extent3d(255, 255, 1)

\* the render passes among the commands the call appended, in order
RenderPassesAppended == SelectSeq(Appended, LAMBDA cmd : cmd.op = "render_pass")

\* C22: a successful generate_src_dst on a source of N >= 1 levels (called by
\* Render with offset 0 on the target itself, by Copy with offset 1 on the
\* temporary texture) records N-1 render passes; pass 1 samples source level 0,
\* pass m >= 2 samples what pass m-1 rendered, pass m renders destination
\* level m - offset, and no destination level is rendered twice.
C22_RenderPassChain ==
    ( /\ pc = "returned"
      /\ generator \in {"Render", "Copy"}
      /\ result = Ok
      /\ texture_descriptor.mip_level_count >= 1 ) =>
        LET N == texture_descriptor.mip_level_count
            offset == IF generator = "Copy" THEN 1 ELSE 0
            dst == IF generator = "Copy" THEN "tmp_texture" ELSE "texture"
            passes == RenderPassesAppended
        IN  /\ Len(passes) = N - 1
            /\ \A m \in 1..(N - 1) :
                  /\ Appended[m] = passes[m]
                  /\ passes[m].dst_texture = dst
                  /\ passes[m].dst_level = m - offset
                  /\ m = 1 => /\ passes[m].src_texture = "texture"
                              /\ passes[m].src_level = 0
                  /\ m >= 2 => /\ passes[m].src_texture = passes[m - 1].dst_texture
                               /\ passes[m].src_level = passes[m - 1].dst_level
            /\ \A m, k \in 1..(N - 1) :
                  passes[m].dst_level = passes[k].dst_level => m = k

\* C22 witness: Render on the 512x512 texture with its 10 levels has recorded
\* the chain of 9 passes, the last one from level 8 into level 9
C22_Witness ==
    /\ ReturnedFrom("Render")
    /\ result = Ok
    /\ texture_descriptor.size.width = PotSize
    /\ texture_descriptor.mip_level_count = 10
    /\ Len(RenderPassesAppended) = 9
    /\ RenderPassesAppended[9].src_level = 8
    /\ RenderPassesAppended[9].dst_level = 9

\* C23: a successful Compute call on a texture of N >= 1 levels appends N-1
\* compute passes; pass m reads level m-1 and writes level m, and its group
\* counts (gx, gy, 1) are at least one and, times 32, cover the width and the
\* height of level m.
C23_ComputeDispatchCovers ==
    (ReturnedFrom("Compute") /\ result = Ok /\ texture_descriptor.mip_level_count >= 1) =>
        LET N == texture_descriptor.mip_level_count
        IN  /\ Len(Appended) = N - 1
            /\ \A m \in 1..(N - 1) :
                  LET pass == Appended[m]
                      level == ExactMipExtent(texture_descriptor.size, m)
                  IN  /\ pass.op = "compute_pass"
                      /\ pass.src_texture = "texture"
                      /\ pass.src_level = m - 1
                      /\ pass.dst_texture = "texture"
                      /\ pass.dst_level = m
                      /\ pass.groups[1] >= 1
                      /\ pass.groups[2] >= 1
                      /\ pass.groups[3] = 1
                      /\ pass.groups[1] * WorkGroupCount >= level.width
                      /\ pass.groups[2] * WorkGroupCount >= level.height

\* C23 witness: Compute on the 512x512 texture with its 10 levels: 8x8 groups
\* for the 256x256 level, one group for the 1x1 level
C23_Witness ==
    /\ ReturnedFrom("Compute")
    /\ result = Ok
    /\ texture_descriptor.size.width = PotSize
    /\ texture_descriptor.mip_level_count = 10
    /\ Appended[1].groups = <<8, 8, 1>>
    /\ Appended[9].groups = <<1, 1, 1>>

\* what generate_src_dst expects of its two descriptors before it panics
Paired(src_desc, dst_desc) ==
    /\ src_desc.format = dst_desc.format
    /\ src_desc.dimension = dst_desc.dimension
    /\ \/ /\ src_desc.mip_level_count = dst_desc.mip_level_count
          /\ src_desc.size = dst_desc.size
       \/ dst_desc.size = ExactMipExtent(src_desc.size, 1)

\* C24: whatever descriptor the caller passes to Render, Copy or the
\* dispatcher, the descriptor pairs handed to generate_src_dst have equal
\* formats and dimensions and either the same mip count and extent or a
\* destination of the source's level-1 extent; the call never ends in one of
\* generate_src_dst's panics (the only panic left is the u32 subtraction of
\* Copy on mip_level_count = 0 in a build with overflow checks).
C24_SrcDstPanicsUnreachable ==
    (pc = "returned" /\ generator \in {"Render", "Copy", "Recommended"}) =>
        /\ Paired(texture_descriptor, texture_descriptor)
        /\ Paired(texture_descriptor, CopyTmpDescriptor(texture_descriptor))
        /\ result = Panic =>
              /\ generator # "Render"
              /\ overflow_checks
              /\ texture_descriptor.mip_level_count = 0

\* C24 witness: Copy passed generate_src_dst a 1x1 temporary texture for a 1x1
\* target of two levels (the extents are equal, the mip counts are not) and
\* returned Ok
C24_Witness ==
    /\ ReturnedFrom("Copy")
    /\ result = Ok
    /\ texture_descriptor.size = Extent3d(1, 1, 1)
    /\ texture_descriptor.mip_level_count = 2
    /\ CopyTmpDescriptor(texture_descriptor).size = texture_descriptor.size
    /\ CopyTmpDescriptor(texture_descriptor).mip_level_count = 1
    /\ Len(Appended) = 2

\* the texture-to-buffer copies among the recorded commands, in order
BufferCopiesRecorded ==
    SelectSeq(encoder, LAMBDA cmd : cmd.op = "copy_texture_to_buffer")

\* C25: for every level i of any texture, the texture-to-buffer copy recorded
\* by generate_and_copy_to_cpu has the extent (max(1, width / 2^i),
\* max(1, height / 2^i), 1), the extent of that level's MipBufferDimensions,
\* and its buffer holds height_i * padded_bytes_per_row_i bytes, so that every
\* row slice read back lies inside the buffer.
C25_ReadbackCopyExtents ==
    (pc \in {"rb_mapping", "rb_returned"} /\ result # Panic /\ buffers # <<>>) =>
        /\ Len(BufferCopiesRecorded) = texture_descriptor.mip_level_count
        /\ \A k \in 1..Len(BufferCopiesRecorded) :
              LET copy == BufferCopiesRecorded[k]
                  dims == buffers[k].dimensions
              IN  /\ copy.src_level = k - 1
                  /\ copy.extent = ExactMipExtent(texture_descriptor.size, k - 1)
                  /\ copy.extent = Extent3d(dims.width, dims.height, 1)
                  /\ copy.bytes_per_row = dims.padded_bytes_per_row
                  /\ Len(buffers[k].buffer) = dims.height * dims.padded_bytes_per_row
                  /\ \A y \in 0..(dims.height - 1) :
                        y * dims.padded_bytes_per_row + dims.unpadded_bytes_per_row
                            <= Len(buffers[k].buffer)

\* the positions of the device operation op in events
EventsAt(op) == {i \in 1..Len(events) : events[i] = op}

\* C26: in a run of generate_and_copy_to_cpu that got past generate, the
\* upload comes first and generate second; in the encoder every command of
\* generate precedes every texture-to-buffer copy; there is exactly one
\* submit, after all the copies; every map request, poll and read of a mapped
\* range comes after the submit; a mapped range is read only right after the
\* poll that follows its own map request; the levels come in ascending order.
C26_ReadbackOrder ==
    (pc \in {"rb_mapping", "rb_returned"} /\ buffers # <<>>) =>
        /\ events[1] = "write_texture"
        /\ events[2] = "generate"
        /\ \A i, j \in 1..Len(encoder) :
              (i < j /\ encoder[i].op = "copy_texture_to_buffer")
                  => encoder[j].op = "copy_texture_to_buffer"
        /\ \A k \in 1..Len(BufferCopiesRecorded) :
              BufferCopiesRecorded[k].src_level = k - 1
        /\ Cardinality(EventsAt("submit")) = 1
        /\ \A s \in EventsAt("submit") :
              /\ \A i \in EventsAt("copy_texture_to_buffer") : 2 < i /\ i < s
              /\ \A i \in EventsAt("map_async") \cup EventsAt("poll")
                          \cup EventsAt("get_mapped_range") : s < i
        /\ \A i \in EventsAt("get_mapped_range") :
              /\ i >= 3
              /\ events[i - 1] = "poll"
              /\ events[i - 2] = "map_async"
        /\ Cardinality(EventsAt("map_async")) = Len(mip_buffers)
        /\ Cardinality(EventsAt("get_mapped_range")) = Len(mip_buffers)
        /\ \A k \in 1..Len(mip_buffers) : mip_buffers[k].level = k - 1

\* C26 witness: a run through the Copy generator on three levels has returned:
\* upload, generate, three copies, one submit, three map-poll-read rounds
C26_Witness ==
    /\ pc = "rb_returned"
    /\ result = Ok
    /\ generator = "Copy"
    /\ texture_descriptor.mip_level_count = 3
    /\ Len(events) = 15
    /\ events[6] = "submit"
    /\ events[15] = "get_mapped_range"
    /\ Len(encoder) = 7

\* C27: when the generator's generate returns an error, the run of
\* generate_and_copy_to_cpu ends there with that same error: no readback buffer
\* created, no texture-to-buffer copy recorded, nothing submitted, no map
\* requested, no MipBuffer returned.
C27_GenerateErrorPropagates ==
    ( /\ pc \in {"rb_mapping", "rb_returned"}
      /\ Generate(generator, <<>>, texture_descriptor).res.status = "Err" ) =>
        /\ pc = "rb_returned"
        /\ result = Generate(generator, <<>>, texture_descriptor).res
        /\ buffers = <<>>
        /\ mip_buffers = <<>>
        /\ BufferCopiesRecorded = <<>>
        /\ events = <<"write_texture", "generate">>

\* C27 witness: the dispatcher failed on a texture without any of the usages
\* the backends need, and the run returned its UnsupportedUsage error
C27_Witness ==
    /\ pc = "rb_returned"
    /\ generator = "Recommended"
    /\ texture_descriptor.usage = {"COPY_SRC", "COPY_DST"}
    /\ texture_descriptor.mip_level_count = 3
    /\ result = Err(UnsupportedUsage(texture_descriptor.usage))
    /\ Len(data) > 1
    /\ buffers = <<>>
    /\ mip_buffers = <<>>

\* C28: for every target descriptor, Copy computes the temporary texture's
\* mip_level_count as the target's minus one without u32 underflow, never
\* requests a temporary texture of zero levels, and gives it the target's
\* level-1 extent, format, dimension and sample count.
C28_CopyTmpDescriptorSound ==
    ( /\ ReturnedFrom("Copy")
      /\ texture_descriptor.size.width >= 1
      /\ texture_descriptor.size.height >= 1
      /\ texture_descriptor.dimension = "D2"
      /\ "SAMPLED" \in texture_descriptor.usage
      /\ texture_descriptor.format \in render_pipeline_cache ) =>
        LET tmp == CopyTmpDescriptor(texture_descriptor)
        IN  /\ result # Panic
            /\ tmp.mip_level_count = texture_descriptor.mip_level_count - 1
            /\ tmp.mip_level_count >= 1
            /\ tmp.size = ExactMipExtent(texture_descriptor.size, 1)
            /\ tmp.format = texture_descriptor.format
            /\ tmp.dimension = texture_descriptor.dimension
            /\ tmp.sample_count = texture_descriptor.sample_count

\* the backend whose passes a successful call recorded
Recorder ==
    IF generator = "Recommended" THEN calls[Len(calls)].backend ELSE generator

\* the views the successful call created
ViewsCreated ==
    LET N == texture_descriptor.mip_level_count
    IN  CASE Recorder = "Compute" -> ComputeViews(texture_descriptor)
          [] Recorder = "Render" -> RenderViews("texture", "texture", N, 0)
          [] Recorder = "Copy" -> RenderViews("texture", "tmp_texture", N, 1)

\* the mip_level_count of the texture a view is created on
LevelsOf(tex) ==
    IF tex = "tmp_texture"
    THEN CopyTmpDescriptor(texture_descriptor).mip_level_count
    ELSE texture_descriptor.mip_level_count

\* C29: every view a successful call creates (Compute on the target, Render
\* with offset 0, Copy with offset 1 on the temporary texture) has a
\* base_mip_level that is not negative (mip_level - dst_mip_offset does not
\* underflow) and below the mip_level_count of its texture; the passes
\* recorded read and write through these views only.
C29_ViewsNameExistingLevels ==
    (pc = "returned" /\ result = Ok) =>
        /\ Len(ViewsCreated) = texture_descriptor.mip_level_count
        /\ \A k \in 1..Len(ViewsCreated) :
              /\ ViewsCreated[k].base_mip_level >= 0
              /\ ViewsCreated[k].base_mip_level < LevelsOf(ViewsCreated[k].texture)
        /\ \A k \in 1..Len(Appended) :
              Appended[k].op \in {"compute_pass", "render_pass"} =>
                  /\ \E v \in 1..Len(ViewsCreated) :
                        /\ ViewsCreated[v].texture = Appended[k].src_texture
                        /\ ViewsCreated[v].base_mip_level = Appended[k].src_level
                  /\ \E v \in 1..Len(ViewsCreated) :
                        /\ ViewsCreated[v].texture = Appended[k].dst_texture
                        /\ ViewsCreated[v].base_mip_level = Appended[k].dst_level

\* C29 witness: Copy on the 511x511 texture of 9 levels created one view on
\* the target and eight on the temporary texture, the last on its level 7
C29_Witness ==
    /\ ReturnedFrom("Copy")
    /\ result = Ok
    /\ texture_descriptor.size.width = NpotSize
    /\ texture_descriptor.mip_level_count = 9
    /\ Len(ViewsCreated) = 9
    /\ ViewsCreated[1] = [texture |-> "texture", base_mip_level |-> 0]
    /\ ViewsCreated[9] = [texture |-> "tmp_texture", base_mip_level |-> 7]
    /\ LevelsOf("tmp_texture") = 8

\* wgpu::StorageTextureAccess: ReadOnly, WriteOnly, ReadWrite
PermitsRead(access) == access \in {"ReadOnly", "ReadWrite"}
PermitsWrite(access) == access \in {"WriteOnly", "ReadWrite"}

\* C30: for every compute pass a successful Compute call recorded, the bind
\* group layout of the texture's format declares binding 0, bound to the view
\* of the level the pass reads, with an access that permits reads, and binding
\* 1, bound to the view of the level the pass writes, with an access that
\* permits writes.
C30_ComputeBindingsAccess ==
    (ReturnedFrom("Compute") /\ result = Ok) =>
        \A m \in 1..Len(Appended) :
            LET layout == bind_group_layout_for_format(texture_descriptor.format)
                group == ComputeBindGroup(m)
            IN  /\ group[1].base_mip_level = Appended[m].src_level
                /\ group[2].base_mip_level = Appended[m].dst_level
                /\ layout[1].binding = group[1].binding
                /\ layout[2].binding = group[2].binding
                /\ PermitsRead(layout[1].access)
                /\ PermitsWrite(layout[2].access)

====
